---- MODULE Spec2Model ----
(***************************************************************************)
(* A model of samplest: the content builder (api.js), the library of       *)
(* handlers and content functions (lib.js) and the serve loop of the       *)
(* command line entry point.                                               *)
(*                                                                         *)
(* JavaScript values are tagged records [t |-> tag, v |-> payload].  A     *)
(* string is a tuple of one-character strings, so that placeholders,       *)
(* lower-casing and number parsing work on characters as the code does.    *)
(* An object is a tuple of <<key, value>> entries kept in JavaScript's     *)
(* own-property order: array-index keys ascending, then the other keys in  *)
(* insertion order.  A raised exception is the value Thrown, which every   *)
(* operator propagates.                                                    *)
(***************************************************************************)
EXTENDS Integers, Sequences, FiniteSets, TLC

\* ------------------------------------------------------------------ values

Null == [t |-> "null"]
Undefined == [t |-> "undefined"]
Thrown == [t |-> "throw"]
NaN == [t |-> "nan"]
Bool(b) == [t |-> "bool", v |-> b]
Num(n) == [t |-> "num", v |-> n]
Str(s) == [t |-> "str", v |-> s]
Arr(s) == [t |-> "arr", v |-> s]
Obj(e) == [t |-> "obj", v |-> e]

IsNull(x) == x.t = "null"
IsUndefined(x) == x.t = "undefined"
IsThrown(x) == x.t = "throw"
IsStr(x) == x.t = "str"
IsNum(x) == x.t = "num"
IsBool(x) == x.t = "bool"
IsArr(x) == x.t = "arr"
IsObj(x) == x.t = "obj"
IsTrue(x) == x.t = "bool" /\ x.v = TRUE

\* JavaScript truthiness: undefined, null, false, 0 and "" are falsy.
Truthy(x) ==
  CASE x.t = "null" -> FALSE
    [] x.t = "undefined" -> FALSE
    [] x.t = "nan" -> FALSE
    [] x.t = "bool" -> x.v
    [] x.t = "num" -> x.v # 0
    [] x.t = "str" -> x.v # <<>>
    [] OTHER -> TRUE

\* ------------------------------------------------------------------- text

Digits == <<"0", "1", "2", "3", "4", "5", "6", "7", "8", "9">>
UpperCase == <<"A", "B", "C", "D", "E", "F", "G", "H", "I", "J", "K", "L", "M",
               "N", "O", "P", "Q", "R", "S", "T", "U", "V", "W", "X", "Y", "Z">>
LowerCase == <<"a", "b", "c", "d", "e", "f", "g", "h", "i", "j", "k", "l", "m",
               "n", "o", "p", "q", "r", "s", "t", "u", "v", "w", "x", "y", "z">>

Range(s) == {s[i] : i \in 1..Len(s)}
IsDigit(c) == c \in Range(Digits)
DigitValue(c) == (CHOOSE i \in 1..Len(Digits) : Digits[i] = c) - 1

\* String.prototype.toLowerCase
LowerChar(c) ==
  IF c \in Range(UpperCase)
  THEN LowerCase[CHOOSE i \in 1..Len(UpperCase) : UpperCase[i] = c]
  ELSE c
ToLowerCase(s) == [i \in 1..Len(s) |-> LowerChar(s[i])]

\* String.prototype.trim (the space is the only white space of the model)
RECURSIVE TrimLeft(_)
TrimLeft(s) == IF s # <<>> /\ Head(s) = " " THEN TrimLeft(Tail(s)) ELSE s
RECURSIVE TrimRight(_)
TrimRight(s) ==
  IF s # <<>> /\ s[Len(s)] = " " THEN TrimRight(SubSeq(s, 1, Len(s) - 1)) ELSE s
Trim(s) == TrimRight(TrimLeft(s))

\* Whether t begins at position i of s, and String.prototype.indexOf
\* (0 when t does not occur; positions are counted from 1).
StartsAt(s, i, t) ==
  /\ i >= 1
  /\ i + Len(t) - 1 <= Len(s)
  /\ \A j \in 1..Len(t) : s[i + j - 1] = t[j]
IndexOf(s, t) ==
  IF \E i \in 1..(Len(s) + 1) : StartsAt(s, i, t)
  THEN CHOOSE i \in 1..(Len(s) + 1) :
         StartsAt(s, i, t) /\ \A j \in 1..(i - 1) : ~StartsAt(s, j, t)
  ELSE 0

\* String.prototype.split on a non-empty separator
RECURSIVE Split(_, _)
Split(s, sep) ==
  LET i == IndexOf(s, sep)
  IN IF i = 0 THEN <<s>>
     ELSE <<SubSeq(s, 1, i - 1)>> \o Split(SubSeq(s, i + Len(sep), Len(s)), sep)

\* Number.prototype.toString of an integer
RECURSIVE NatToText(_)
NatToText(n) ==
  IF n < 10 THEN <<Digits[n + 1]>> ELSE NatToText(n \div 10) \o <<Digits[(n % 10) + 1]>>
NumToText(n) == IF n < 0 THEN <<"-">> \o NatToText(0 - n) ELSE NatToText(n)

AllDigits(s) == s # <<>> /\ \A i \in 1..Len(s) : IsDigit(s[i])
RECURSIVE TextToNat(_)
TextToNat(s) ==
  IF s = <<>> THEN 0 ELSE 10 * TextToNat(SubSeq(s, 1, Len(s) - 1)) + DigitValue(s[Len(s)])

\* String(value): what a template literal and String.prototype.replace make
\* of a value.  An array joins its elements with commas, null and undefined
\* elements as the empty string.
RECURSIVE ToText(_)
RECURSIVE JoinTexts(_)
JoinTexts(vs) ==
  IF vs = <<>> THEN <<>>
  ELSE LET h == IF IsNull(Head(vs)) \/ IsUndefined(Head(vs)) THEN <<>> ELSE ToText(Head(vs))
       IN IF Len(vs) = 1 THEN h ELSE h \o <<",">> \o JoinTexts(Tail(vs))
ToText(x) ==
  CASE x.t = "str" -> x.v
    [] x.t = "num" -> NumToText(x.v)
    [] x.t = "bool" -> IF x.v THEN <<"t","r","u","e">> ELSE <<"f","a","l","s","e">>
    [] x.t = "null" -> <<"n","u","l","l">>
    [] x.t = "undefined" -> <<"u","n","d","e","f","i","n","e","d">>
    [] x.t = "nan" -> <<"N","a","N">>
    [] x.t = "arr" -> JoinTexts(x.v)
    [] OTHER -> <<"[","o","b","j","e","c","t"," ","O","b","j","e","c","t","]">>

\* value.toString(): as String(value), but null and undefined have no methods.
ToStringMethod(x) == IF IsNull(x) \/ IsUndefined(x) THEN Thrown ELSE Str(ToText(x))

\* ------------------------------------------------ objects and arrays

\* A canonical array index ("0", "7", "12"): such keys come first, in
\* ascending order, in an object's own-property order.
IsIndexKey(k) == AllDigits(k) /\ (Len(k) = 1 \/ Head(k) # "0")

HasKey(o, k) == \E i \in 1..Len(o.v) : o.v[i][1] = k
KeyIndex(o, k) == CHOOSE i \in 1..Len(o.v) : o.v[i][1] = k
Keys(o) == [i \in 1..Len(o.v) |-> o.v[i][1]]
KeySet(o) == {o.v[i][1] : i \in 1..Len(o.v)}

\* o[k] = v on an object: an existing key keeps its place, a new index key
\* is inserted among the index keys, any other new key is appended.
ObjPut(o, k, v) ==
  IF HasKey(o, k)
  THEN Obj([o.v EXCEPT ![KeyIndex(o, k)] = <<k, v>>])
  ELSE IF IsIndexKey(k)
  THEN LET before == {i \in 1..Len(o.v) :
                        IsIndexKey(o.v[i][1]) /\ TextToNat(o.v[i][1]) < TextToNat(k)}
           n == Cardinality(before)
       IN Obj(SubSeq(o.v, 1, n) \o <<(<<k, v>>)>> \o SubSeq(o.v, n + 1, Len(o.v)))
  ELSE Obj(Append(o.v, <<k, v>>))

\* The own enumerable properties Object.entries and Object.assign see.
Entries(x) ==
  CASE x.t = "obj" -> x.v
    [] x.t = "arr" -> [i \in 1..Len(x.v) |-> <<NatToText(i - 1), x.v[i]>>]
    [] x.t = "str" -> [i \in 1..Len(x.v) |-> <<NatToText(i - 1), Str(<<x.v[i]>>)>>]
    [] OTHER -> <<>>

\* JSON.parse of an object literal: the keys are defined in the order of the
\* text, a repeated key keeping its first place and its last value.
RECURSIVE FromDeclared(_, _)
FromDeclared(o, es) ==
  IF es = <<>> THEN o ELSE FromDeclared(ObjPut(o, es[1][1], es[1][2]), Tail(es))
Declared(es) == FromDeclared(Obj(<<>>), es)

\* Object.assign(target, source)
ObjectAssign(target, source) == FromDeclared(target, Entries(source))

\* A JSON text: strings, numbers, booleans, null and arrays are written as
\* the values they stand for, an object literal as its members in the
\* order of the text.
Literal(members) == [t |-> "literal", v |-> members]

\* JSON.parse
RECURSIVE JsonParse(_)
JsonParse(text) ==
  CASE text.t = "literal" ->
         Declared([i \in 1..Len(text.v) |-> <<text.v[i][1], JsonParse(text.v[i][2])>>])
    [] text.t = "arr" -> Arr([i \in 1..Len(text.v) |-> JsonParse(text.v[i])])
    [] OTHER -> text

\* source[field]; properties of the prototypes other than length are not
\* modelled.  Reading a property of null or undefined raises a TypeError.
Prop(source, field) ==
  CASE source.t \in {"null", "undefined", "throw"} -> Thrown
    [] source.t = "obj" ->
         IF HasKey(source, field) THEN source.v[KeyIndex(source, field)][2] ELSE Undefined
    [] source.t = "arr" ->
         IF IsIndexKey(field)
         THEN IF TextToNat(field) < Len(source.v) THEN source.v[TextToNat(field) + 1]
              ELSE Undefined
         ELSE IF field = <<"l","e","n","g","t","h">> THEN Num(Len(source.v)) ELSE Undefined
    [] source.t = "str" ->
         IF IsIndexKey(field)
         THEN IF TextToNat(field) < Len(source.v)
              THEN Str(<<source.v[TextToNat(field) + 1]>>) ELSE Undefined
         ELSE IF field = <<"l","e","n","g","t","h">> THEN Num(Len(source.v)) ELSE Undefined
    [] OTHER -> Undefined

\* field in source
HasProp(source, field) ==
  CASE source.t = "obj" -> HasKey(source, field)
    [] source.t = "arr" ->
         \/ IsIndexKey(field) /\ TextToNat(field) < Len(source.v)
         \/ field = <<"l","e","n","g","t","h">>
    [] OTHER -> FALSE

AnyThrown(vs) == \E i \in 1..Len(vs) : IsThrown(vs[i])

\* JSON.parse(JSON.stringify(x)): undefined has no JSON text (the parse of
\* "undefined" raises), an undefined array element becomes null and an
\* undefined property is dropped.
RECURSIVE JsonCopy(_)
JsonCopy(x) ==
  CASE x.t = "arr" ->
         Arr([i \in 1..Len(x.v) |->
                IF IsUndefined(x.v[i]) THEN Null ELSE JsonCopy(x.v[i])])
    [] x.t = "obj" ->
         LET kept == SelectSeq(x.v, LAMBDA e : ~IsUndefined(e[2]))
         IN Obj([i \in 1..Len(kept) |-> <<kept[i][1], JsonCopy(kept[i][2])>>])
    [] x.t = "undefined" -> Thrown
    [] OTHER -> x

\* --------------------------------------------------------- ContextManager

WILDCARD == <<"*">>

\* ContextManager.read without the test value !== null of the wildcard
\* loop: every element's result is collected.
RECURSIVE ReadCollectingAll(_, _)
ReadCollectingAll(source, fieldpath) ==
  IF fieldpath = <<>> THEN source
  ELSE LET orNull(got) == IF IsThrown(got) THEN Thrown
                          ELSE IF Truthy(got) THEN got ELSE Null
           descend(results) == IF IsObj(results) \/ IsArr(results)
                               THEN ReadCollectingAll(results, Tail(fieldpath))
                               ELSE results
       IN IF Head(fieldpath) = WILDCARD /\ IsArr(source)
          THEN Arr([i \in 1..Len(source.v) |->
                      ReadCollectingAll(source.v[i], Tail(fieldpath))])
          ELSE descend(orNull(Prop(source, Head(fieldpath))))

\* ContextManager.read
RECURSIVE Read(_, _)
Read(source, fieldpath) ==
  IF fieldpath = <<>> THEN source
  ELSE LET field == Head(fieldpath)
           rest == Tail(fieldpath)
           orNull(got) == IF IsThrown(got) THEN Thrown
                          ELSE IF Truthy(got) THEN got ELSE Null
           descend(results) == IF IsObj(results) \/ IsArr(results)
                               THEN Read(results, rest)
                               ELSE results
       IN IF field = WILDCARD /\ IsArr(source)
          THEN LET each == [i \in 1..Len(source.v) |-> Read(source.v[i], rest)]
               IN IF AnyThrown(each) THEN Thrown
                  ELSE Arr(SelectSeq(each, LAMBDA value : ~IsNull(value)))
          ELSE descend(orNull(Prop(source, field)))

\* ContextManager.get
CmGet(ctx, field) == Read(ctx, Split(field, <<".">>))

\* ------------------------------------------------- capture and interpret

IsNameChar(c) ==
  c \in Range(LowerCase) \cup Range(UpperCase) \cup Range(Digits) \cup {".", "-", "_"}

\* The last position of the longest run of name characters that starts at
\* position i (i - 1 when s[i] is no name character).
RECURSIVE NameEnd(_, _)
NameEnd(s, i) == IF i <= Len(s) /\ IsNameChar(s[i]) THEN NameEnd(s, i + 1) ELSE i - 1

\* The matches of /\{{1}([a-z0-9\.\-_]+)\}{1}/ig from position i on, left to
\* right, each the captured name.
RECURSIVE CaptureFrom(_, _)
CaptureFrom(s, i) ==
  IF i > Len(s) THEN <<>>
  ELSE IF s[i] = "{"
  THEN LET e == NameEnd(s, i + 1)
       IN IF e >= i + 1 /\ e + 1 <= Len(s) /\ s[e + 1] = "}"
          THEN <<SubSeq(s, i + 1, e)>> \o CaptureFrom(s, e + 2)
          ELSE CaptureFrom(s, i + 1)
  ELSE CaptureFrom(s, i + 1)

\* capture
Capture(content) == CaptureFrom(content, 1)

\* The replacement patterns of String.prototype.replace with a string
\* pattern: $$ stands for a dollar sign and $& for the matched text (the
\* patterns for the text before and after the match need a backtick or an
\* apostrophe, which no text of the model contains).
RECURSIVE ExpandReplacement(_, _)
ExpandReplacement(r, matched) ==
  IF r = <<>> THEN <<>>
  ELSE IF Head(r) = "$" /\ Len(r) >= 2 /\ r[2] \in {"$", "&"}
  THEN (IF r[2] = "$" THEN <<"$">> ELSE matched)
       \o ExpandReplacement(SubSeq(r, 3, Len(r)), matched)
  ELSE <<Head(r)>> \o ExpandReplacement(Tail(r), matched)

\* text.replace(pattern, value) with a string pattern: the first occurrence
\* only, the value turned into a string.
StringReplace(text, pattern, value) ==
  LET i == IndexOf(text, pattern)
  IN IF i = 0 THEN text
     ELSE LET before == SubSeq(text, 1, i - 1)
              after == SubSeq(text, i + Len(pattern), Len(text))
          IN before \o ExpandReplacement(ToText(value), pattern) \o after

\* The loop of interpret over the captured variables of the original text.
RECURSIVE InterpretLoop(_, _, _, _)
InterpretLoop(text, variables, ctx, lower) ==
  IF variables = <<>> THEN Str(text)
  ELSE LET variable == Head(variables)
           replaced(value) ==
             IF IsThrown(value) THEN Thrown
             ELSE IF IsNull(value)
             THEN InterpretLoop(text, Tail(variables), ctx, lower)
             ELSE InterpretLoop(StringReplace(text, <<"{">> \o variable \o <<"}">>, value),
                                Tail(variables), ctx, lower)
       IN replaced(CmGet(ctx, IF lower THEN ToLowerCase(variable) ELSE variable))

\* interpret
Interpret(text, ctx, lower) == InterpretLoop(text, Capture(text), ctx, lower)

\* fake(text) of the faker library: the library is not part of the repository.  The empty
\* string is refused, a text without {{ and }} is returned as it is, and a
\* {{name.firstName}} tag is replaced by the generated filler, tag after
\* tag; any other tag names no module of the library and raises.
FirstNameTag == <<"{","{","n","a","m","e",".","f","i","r","s","t","N","a","m","e","}","}">>
RECURSIVE Fake(_, _)
Fake(text, fill) ==
  IF text = <<>> THEN Thrown
  ELSE IF IndexOf(text, <<"{","{">>) = 0 /\ IndexOf(text, <<"}","}">>) = 0 THEN Str(text)
  ELSE IF /\ IndexOf(text, <<"{","{">>) # 0
          /\ StartsAt(text, IndexOf(text, <<"{","{">>), FirstNameTag)
  THEN Fake(StringReplace(text, FirstNameTag, Str(fill)), fill)
  ELSE Thrown

\* The text callbacks of _processHeaders and _processContent:
\* (text) => interpret(fake(text), ctx, lower).
TextCallback(tf, text) ==
  LET interpreted(faked) ==
        IF IsThrown(faked) THEN Thrown ELSE Interpret(faked.v, tf.ctx, tf.lower)
  IN interpreted(Fake(text, tf.fill))

\* generateContent, on the value its serialized argument stands for.  The
\* constructor of null cannot be read, so a null leaf raises.
RECURSIVE GenerateContent(_, _)
GenerateContent(data, tf) ==
  LET content == JsonCopy(data)
  IN CASE IsThrown(content) -> Thrown
       [] IsArr(content) ->
            LET items == [i \in 1..Len(content.v) |-> GenerateContent(content.v[i], tf)]
            IN IF AnyThrown(items) THEN Thrown ELSE Arr(items)
       [] IsObj(content) ->
            LET items == [i \in 1..Len(content.v) |-> GenerateContent(content.v[i][2], tf)]
            IN IF AnyThrown(items) THEN Thrown
               ELSE Obj([i \in 1..Len(content.v) |-> <<content.v[i][1], items[i]>>])
       [] IsNull(content) -> Thrown
       [] OTHER -> TextCallback(tf, ToText(content))

\* ------------------------------------------------------ repeat and cast

\* The number of leading digits of s.
RECURSIVE DigitPrefix(_)
DigitPrefix(s) == IF s # <<>> /\ IsDigit(Head(s)) THEN 1 + DigitPrefix(Tail(s)) ELSE 0

\* parseInt(s, 10): leading spaces and one sign are skipped, the digits
\* that follow are read and whatever follows them is ignored.
ParseInt(s) ==
  LET t == TrimLeft(s)
      signed == t # <<>> /\ Head(t) \in {"-", "+"}
      body == IF signed THEN Tail(t) ELSE t
      n == DigitPrefix(body)
  IN IF n = 0 THEN NaN
     ELSE IF signed /\ Head(t) = "-" THEN Num(0 - TextToNat(SubSeq(body, 1, n)))
     ELSE Num(TextToNat(SubSeq(body, 1, n)))

\* Number(s) for the numerals the model writes: an optionally signed run of
\* digits between spaces; the empty string is 0.
StringToNumber(s) ==
  LET t == Trim(s)
      signed == t # <<>> /\ Head(t) \in {"-", "+"}
      body == IF signed THEN Tail(t) ELSE t
  IN IF t = <<>> THEN Num(0)
     ELSE IF ~AllDigits(body) THEN NaN
     ELSE IF signed /\ Head(t) = "-" THEN Num(0 - TextToNat(body))
     ELSE Num(TextToNat(body))

\* Math.random() is one of the RandomSteps values d / RandomSteps,
\* 0 <= d < RandomSteps.
RandomSteps == 2
Draws == 0..(RandomSteps - 1)

\* The number of copies with Math.ceil in the place of Math.floor.
RepeatTotalCeiling(length, formula, d) ==
  LET orLength(n) == IF Truthy(n) THEN n.v ELSE length
      between(minValue, maxValue) ==
        ((d * (maxValue - minValue + 1) + RandomSteps - 1) \div RandomSteps) + minValue
      ranged(parts) == between(orLength(ParseInt(parts[1])), orLength(ParseInt(parts[2])))
      fixed(total) == IF IsNum(total) THEN total.v ELSE 0
  IN IF IndexOf(formula, <<".",".">>) # 0
     THEN ranged(Split(formula, <<".",".">>))
     ELSE fixed(ParseInt(formula))

\* The number of copies repeatContent pushes: NaN and negative totals leave
\* the loop without a turn.
RepeatTotal(length, formula, d) ==
  LET orLength(n) == IF Truthy(n) THEN n.v ELSE length
      between(minValue, maxValue) ==
        ((d * (maxValue - minValue + 1)) \div RandomSteps) + minValue
      ranged(parts) == between(orLength(ParseInt(parts[1])), orLength(ParseInt(parts[2])))
      fixed(total) == IF IsNum(total) THEN total.v ELSE 0
  IN IF IndexOf(formula, <<".",".">>) # 0
     THEN ranged(Split(formula, <<".",".">>))
     ELSE fixed(ParseInt(formula))

\* The copies laid element by element: n times the first element, then n
\* times the second, and so on.
RECURSIVE CopiesOfEach(_, _)
CopiesOfEach(list, n) ==
  IF list = <<>> \/ n <= 0 THEN <<>>
  ELSE [j \in 1..n |-> Head(list)] \o CopiesOfEach(Tail(list), n)

RECURSIVE Copies(_, _)
Copies(list, n) == IF n <= 0 THEN <<>> ELSE list \o Copies(list, n - 1)

\* repeatContent, with the random draw d
RepeatContent(list, formula, d) == Arr(Copies(list.v, RepeatTotal(Len(list.v), formula, d)))

\* castContent
CastContent(type, value) ==
  LET number(text, num) ==
        IF num = NaN THEN Str(<<"<","\"">> \o text \o <<"\""," ","i","s"," ","n","o","t"," ","a"," ","n","u","m","b","e","r",">">>) ELSE num
      boolean(text, lowered) ==
        IF lowered = <<"t","r","u","e">> THEN Bool(TRUE)
        ELSE IF lowered = <<"f","a","l","s","e">> THEN Bool(FALSE)
        ELSE Str(<<"<","\"">> \o text \o <<"\""," ","i","s"," ","n","o","t"," ","a"," ","b","o","o","l","e","a","n",">">>)
      cast(text) ==
        IF IsUndefined(value) \/ IsNull(value)
        THEN Str(<<"<","c","a","n","n","o","t"," ","c","a","s","t"," ","\"">> \o text \o <<"\""," ","a","s"," ">> \o type \o <<">">>)
        ELSE IF type = <<"n","u","m","b","e","r">> THEN number(text, StringToNumber(text))
        ELSE IF type = <<"b","o","o","l","e","a","n">> THEN boolean(text, ToLowerCase(text))
        ELSE IF type = <<"s","t","r","i","n","g">> THEN Str(text)
        ELSE Thrown
  IN cast(ToText(value))

\* A content callback handed to ContextManager.set; _postprocessContent
\* passes (data) => castContent(type, data).
CastCallback(type) == [kind |-> "cast", type |-> type]
Call(content, data) == CastContent(content.type, data)

\* source[field] = value.  An index past the end of an array leaves holes
\* behind it; any other new property of an array is no element of it; the
\* length of an array takes a number.
SetProp(source, field, value) ==
  LET resized(n) ==
        IF IsNum(n) /\ n.v >= 0
        THEN Arr([j \in 1..n.v |-> IF j <= Len(source.v) THEN source.v[j] ELSE Undefined])
        ELSE Thrown
  IN IF IsObj(source) THEN ObjPut(source, field, value)
     ELSE IF IsIndexKey(field)
     THEN LET i == TextToNat(field) + 1
          IN Arr([j \in 1..(IF i > Len(source.v) THEN i ELSE Len(source.v)) |->
                    IF j = i THEN value
                    ELSE IF j <= Len(source.v) THEN source.v[j] ELSE Undefined])
     ELSE IF field = <<"l","e","n","g","t","h">>
     THEN resized(IF IsBool(value) \/ IsNull(value) \/ IsUndefined(value) THEN NaN
                  ELSE StringToNumber(ToText(value)))
     ELSE source

\* ContextManager.write without the test field in source: every addressed
\* field is made anew of content(undefined).
RECURSIVE WriteFresh(_, _, _)
WriteFresh(source, fieldpath, content) ==
  IF fieldpath = <<>> THEN Call(content, source)
  ELSE IF Head(fieldpath) = WILDCARD /\ IsArr(source)
  THEN Arr([i \in 1..Len(source.v) |-> WriteFresh(source.v[i], Tail(fieldpath), content)])
  ELSE IF ~(IsObj(source) \/ IsArr(source)) THEN Thrown
  ELSE SetProp(source, Head(fieldpath), Call(content, Undefined))

\* ContextManager.write on a value no other reference shares; the in
\* operator raises a TypeError on anything but an object or an array.
RECURSIVE Write(_, _, _)
Write(source, fieldpath, content) ==
  IF fieldpath = <<>> THEN Call(content, source)
  ELSE LET field == Head(fieldpath)
           rest == Tail(fieldpath)
           assigned(value) ==
             IF IsThrown(value) THEN Thrown ELSE SetProp(source, field, value)
       IN IF field = WILDCARD /\ IsArr(source)
          THEN LET items == [i \in 1..Len(source.v) |-> Write(source.v[i], rest, content)]
               IN IF AnyThrown(items) THEN Thrown ELSE Arr(items)
          ELSE IF ~(IsObj(source) \/ IsArr(source)) THEN Thrown
          ELSE assigned(IF HasProp(source, field)
                        THEN Write(Prop(source, field), rest, content)
                        ELSE Call(content, Undefined))

\* ContextManager.set
CmSet(ctx, field, content) == Write(ctx, Split(field, <<".">>), content)

\* The array repeatContent returns holds the same element objects once per
\* copy: element i and element i + length are one object.  Shared(items,
\* alias) is such an array: alias[i] is the number of the object slot i
\* refers to, or 0 for a slot that shares nothing.  A write below a slot
\* changes the object, which every slot that refers to it shows; a write
\* of the slot itself replaces the reference.
Shared(items, alias) == [t |-> "shared", v |-> items, alias |-> alias]
Unshared(list) == Shared(list.v, [i \in 1..Len(list.v) |-> 0])
Repeated(list, length) ==
  Shared(list.v, [i \in 1..Len(list.v) |-> ((i - 1) % length) + 1])

WriteSlot(shared, i, rest, content) ==
  LET put(written) ==
        IF IsThrown(written) THEN Thrown
        ELSE IF rest = <<>>
        THEN Shared([shared.v EXCEPT ![i] = written], [shared.alias EXCEPT ![i] = 0])
        ELSE Shared([j \in 1..Len(shared.v) |->
                       IF j = i \/ (shared.alias[i] # 0 /\ shared.alias[j] = shared.alias[i])
                       THEN written ELSE shared.v[j]],
                    shared.alias)
  IN put(Write(shared.v[i], rest, content))

RECURSIVE WriteSlots(_, _, _, _, _)
WriteSlots(shared, i, last, rest, content) ==
  IF IsThrown(shared) \/ i > last THEN shared
  ELSE WriteSlots(WriteSlot(shared, i, rest, content), i + 1, last, rest, content)

\* ContextManager.write on the array _postprocessContent holds.
WriteShared(shared, fieldpath, content) ==
  LET field == Head(fieldpath)
      rest == Tail(fieldpath)
      source == Arr(shared.v)
      slot == TextToNat(field) + 1
      rebuilt(written) ==
        IF IsThrown(written) THEN Thrown
        ELSE Shared(written.v,
                    [j \in 1..Len(written.v) |->
                       IF j <= Len(shared.v) THEN shared.alias[j] ELSE 0])
  IN IF field = WILDCARD \/ (IsIndexKey(field) /\ HasProp(source, field))
     THEN WriteSlots(shared,
                     IF field = WILDCARD THEN 1 ELSE slot,
                     IF field = WILDCARD THEN Len(shared.v) ELSE slot,
                     rest, content)
     ELSE rebuilt(Write(source, fieldpath, content))

\* The loop of _postprocessContent over Object.entries(cast); ContextManager.set
\* splits each field on the dots.
RECURSIVE CastFields(_, _)
CastFields(content, entries) ==
  IF IsThrown(content) \/ entries = <<>> THEN content
  ELSE LET fieldpath == Split(entries[1][1], <<".">>)
           callback == CastCallback(ToText(entries[1][2]))
       IN CastFields(IF content.t = "shared"
                     THEN WriteShared(content, fieldpath, callback)
                     ELSE Write(content, fieldpath, callback),
                     Tail(entries))

\* _postprocessContent with its two statements in the other order: the
\* fields are cast first and the cast array is repeated.
PostprocessContentCastFirst(content, metadata, d) ==
  LET options == IF IsObj(metadata) THEN metadata ELSE Obj(<<>>)
      cast == Prop(options, <<"c","a","s","t">>)
      repeat == Prop(options, <<"r","e","p","e","a","t">>)
      plain(done) ==
        IF IsThrown(done) THEN Thrown
        ELSE IF done.t = "shared" THEN Arr(done.v) ELSE done
      repeated(casted) ==
        IF IsThrown(casted) THEN Thrown
        ELSE IF Truthy(repeat) /\ IsArr(casted)
        THEN RepeatContent(casted, ToText(repeat), d)
        ELSE casted
  IN repeated(plain(IF Truthy(cast)
                    THEN CastFields(IF IsArr(content) THEN Unshared(content) ELSE content,
                                    Entries(cast))
                    ELSE content))

\* ContentBuilder._postprocessContent on { ...res.$data }, with the random
\* draw d of repeatContent.
PostprocessContent(content, metadata, d) ==
  LET options == IF IsObj(metadata) THEN metadata ELSE Obj(<<>>)
      cast == Prop(options, <<"c","a","s","t">>)
      repeat == Prop(options, <<"r","e","p","e","a","t">>)
      plain(done) ==
        IF IsThrown(done) THEN Thrown
        ELSE IF done.t = "shared" THEN Arr(done.v) ELSE done
      casted(repeated) ==
        plain(IF Truthy(cast) THEN CastFields(repeated, Entries(cast)) ELSE repeated)
  IN casted(IF Truthy(repeat) /\ IsArr(content)
            THEN Repeated(RepeatContent(content, ToText(repeat), d), Len(content.v))
            ELSE IF IsArr(content) THEN Unshared(content) ELSE content)

\* --------------------------------------------------------------- handlers

\* typeof x === 'object' && x.constructor === Object; reading the
\* constructor of null raises, which callers test for beforehand or not.
IsPlainObject(x) == IsObj(x)

\* CommonHandler._validateHeaders: the keys lower-cased, a repeated key
\* refused; Object.entries(null) raises.
RECURSIVE LowercaseHeaders(_, _)
LowercaseHeaders(entries, lowercaseHeaders) ==
  IF entries = <<>> THEN lowercaseHeaders
  ELSE LET key == ToLowerCase(entries[1][1])
       IN IF HasKey(lowercaseHeaders, key) THEN Thrown
          ELSE LowercaseHeaders(Tail(entries), ObjPut(lowercaseHeaders, key, entries[1][2]))
ValidateHeaders(headers) ==
  IF IsUndefined(headers) THEN Obj(<<>>)
  ELSE IF IsNull(headers) THEN Thrown
  ELSE LowercaseHeaders(Entries(headers), Obj(<<>>))

\* RequestHandler.HTTP_VERBS
HTTP_VERBS == {<<"h","e","a","d">>, <<"g","e","t">>, <<"p","o","s","t">>, <<"p","u","t">>, <<"p","a","t","c","h">>, <<"d","e","l","e","t","e">>}

\* RequestHandler._validateHttpRouteMethod: only a string has toLowerCase.
ValidateHttpRouteMethod(method) ==
  IF ~IsStr(method) THEN Thrown
  ELSE IF ToLowerCase(method.v) \notin HTTP_VERBS THEN Thrown
  ELSE Str(ToLowerCase(method.v))

\* RequestHandler._validateHttpRoute: only a string has trim.
ValidateHttpRoute(route) ==
  IF ~Truthy(route) THEN Thrown
  ELSE IF ~IsStr(route) THEN Thrown
  ELSE IF Len(Trim(route.v)) = 0 THEN Thrown
  ELSE route

\* RequestHandler._validateQueryString: each value, or each element of an
\* array value, must be its own toString().
ValidateQueryString(query) ==
  IF IsUndefined(query) THEN Obj(<<>>)
  ELSE IF ~(Truthy(query) /\ IsPlainObject(query)) THEN Thrown
  ELSE IF \A i \in 1..Len(query.v) :
            LET value == IF IsArr(query.v[i][2]) THEN query.v[i][2].v ELSE <<query.v[i][2]>>
            IN \A j \in 1..Len(value) : IsStr(value[j])
  THEN query
  ELSE Thrown

\* _validatePayload with the test of the constructor left out: whatever
\* typeof calls an object is accepted, an array too.
ValidatePayloadAsObject(payload) ==
  IF IsUndefined(payload) THEN Null
  ELSE IF IsNull(payload) THEN Thrown
  ELSE IF IsPlainObject(payload) \/ IsArr(payload) THEN payload
  ELSE IF Truthy(payload) /\ IsStr(payload) THEN payload
  ELSE Thrown

\* RequestHandler._validatePayload
ValidatePayload(payload) ==
  IF IsUndefined(payload) THEN Null
  ELSE IF IsNull(payload) THEN Thrown
  ELSE IF IsPlainObject(payload) THEN payload
  ELSE IF Truthy(payload) /\ IsStr(payload) THEN payload
  ELSE Thrown

\* new RequestHandler(r): destructuring null or undefined raises.
RequestHandler(r) ==
  LET built(method, route, query, headers, payload) ==
        IF AnyThrown(<<method, route, query, headers, payload>>) THEN Thrown
        ELSE [t |-> "RequestHandler", method |-> method, route |-> route,
              query |-> query, headers |-> headers, payload |-> payload]
  IN IF IsNull(r) \/ IsUndefined(r) THEN Thrown
     ELSE built(ValidateHttpRouteMethod(Prop(r, <<"m","e","t","h","o","d">>)),
                ValidateHttpRoute(Prop(r, <<"r","o","u","t","e">>)),
                ValidateQueryString(Prop(r, <<"q","u","e","r","y">>)),
                ValidateHeaders(Prop(r, <<"h","e","a","d","e","r","s">>)),
                ValidatePayload(Prop(r, <<"p","a","y","l","o","a","d">>)))

\* ResponseHandler.CAST_OPTIONS
CAST_OPTIONS == {<<"n","u","m","b","e","r">>, <<"b","o","o","l","e","a","n">>, <<"s","t","r","i","n","g">>}

\* ResponseHandler._validateStatusCode: the code itself is kept.
ValidateStatusCode(code) ==
  LET inRange(statusCode) ==
        IF ~IsNum(statusCode) THEN Thrown
        ELSE IF statusCode.v < 100 \/ statusCode.v > 599 THEN Thrown
        ELSE code
  IN IF IsNull(code) \/ IsUndefined(code) THEN Thrown
     ELSE inRange(ParseInt(ToText(code)))

\* ResponseHandler._validateMetadataRepeatOptions
ValidateMetadataRepeatOptions(data, repeat) ==
  LET orLength(part) == IF part # <<>> THEN part ELSE NatToText(Len(data.v))
      ranged(parts) ==
        IF IsNum(ParseInt(orLength(parts[1]))) /\ IsNum(ParseInt(orLength(parts[2])))
        THEN Null ELSE Thrown
  IN IF ~IsArr(data) THEN Thrown
     ELSE IF IndexOf(repeat, <<".",".">>) = 0
     THEN IF IsNum(ParseInt(repeat)) THEN Null ELSE Thrown
     ELSE ranged(Split(repeat, <<".",".">>))

\* ResponseHandler._validateMetadataCastTypes
ValidateMetadataCastTypes(data, cast) ==
  LET known(value) == ~IsThrown(value) /\ ~IsNull(value)
      option(type) == IsStr(type) /\ type.v \in CAST_OPTIONS
      allowed(entries) ==
        \A i \in 1..Len(entries) :
           known(CmGet(data, entries[i][1])) /\ option(entries[i][2])
  IN IF ~(IsObj(data) \/ IsArr(data)) THEN Thrown
     ELSE IF allowed(Entries(cast)) THEN Null
     ELSE Thrown

\* ResponseHandler._validateMetadata: metadata that is no plain object is
\* returned unchecked.
ValidateMetadata(data, metadata) ==
  LET castChecked(cast) ==
        IF Truthy(cast) /\ (IsObj(cast) \/ IsArr(cast))
        THEN ValidateMetadataCastTypes(data, cast)
        ELSE IF ~IsUndefined(cast) THEN Thrown ELSE Null
      repeatChecked(repeat) ==
        IF Truthy(repeat) /\ IsStr(repeat)
        THEN ValidateMetadataRepeatOptions(data, repeat.v)
        ELSE IF ~IsUndefined(repeat) THEN Thrown ELSE Null
  IN IF ~IsPlainObject(metadata) THEN metadata
     ELSE IF \/ IsThrown(castChecked(Prop(metadata, <<"c","a","s","t">>)))
             \/ IsThrown(repeatChecked(Prop(metadata, <<"r","e","p","e","a","t">>)))
     THEN Thrown
     ELSE metadata

\* new ResponseHandler(r); `data || null` and `$data && ...` as written.
ResponseHandler(r) ==
  LET built(code, headers, data, metadata) ==
        IF AnyThrown(<<code, headers, metadata>>) THEN Thrown
        ELSE [t |-> "ResponseHandler", code |-> code, headers |-> headers,
              data |-> data, metadata |-> metadata]
      orNull(data) == IF Truthy(data) THEN data ELSE Null
      checked(data, metadata) ==
        IF Truthy(metadata) THEN ValidateMetadata(data, metadata) ELSE metadata
      validated(data) ==
        built(ValidateStatusCode(Prop(r, <<"c","o","d","e">>)),
              ValidateHeaders(Prop(r, <<"h","e","a","d","e","r","s">>)),
              data,
              checked(data, Prop(r, <<"$","d","a","t","a">>)))
  IN IF IsNull(r) \/ IsUndefined(r) THEN Thrown
     ELSE validated(orNull(Prop(r, <<"d","a","t","a">>)))

\* ExceptHandler._validate on one case: validate must be a non-empty array
\* of strings and response must make a ResponseHandler.
ValidCase(case) ==
  LET strings(validate) ==
        /\ IsArr(validate)
        /\ Len(validate.v) # 0
        /\ \A i \in 1..Len(validate.v) : IsStr(validate.v[i])
  IN /\ ~(IsNull(case) \/ IsUndefined(case))
     /\ strings(Prop(case, <<"v","a","l","i","d","a","t","e">>))
     /\ ~IsThrown(ResponseHandler(Prop(case, <<"r","e","s","p","o","n","s","e">>)))

\* new ExceptHandler(except): the cases are kept as they were given, the
\* very objects of the specification; what is no plain object is kept
\* unchecked.
ExceptHandler(except) ==
  IF IsPlainObject(except) /\ \E i \in 1..Len(except.v) : ~ValidCase(except.v[i][2])
  THEN Thrown
  ELSE [t |-> "ExceptHandler", cases |-> except]

\* x instanceof ExceptHandler
IsExceptHandler(x) == x.t = "ExceptHandler"

\* new ContentBuilder(content); except defaults to null when undefined, and
\* a falsy except is kept as it is.
ContentBuilder(content) ==
  LET built(request, response, except) ==
        IF IsThrown(request) \/ IsThrown(response) \/ IsThrown(except) THEN Thrown
        ELSE [t |-> "ContentBuilder", request |-> request, response |-> response,
              except |-> except]
      handler(given) == IF Truthy(given) THEN ExceptHandler(given) ELSE given
      orNull(except) == IF IsUndefined(except) THEN Null ELSE except
  IN IF IsNull(content) \/ IsUndefined(content) THEN Thrown
     ELSE built(RequestHandler(Prop(content, <<"r","e","q","u","e","s","t">>)),
                ResponseHandler(Prop(content, <<"r","e","s","p","o","n","s","e">>)),
                handler(orNull(Prop(content, <<"e","x","c","e","p","t">>))))

\* --------------------------------------------------------- ContentBuilder

Field(name, value) == <<name, value>>

\* _buildRequestContext with the arguments of Object.assign in the other
\* order: the defaults of the specification are laid over the request.
BuildRequestContextDefaultsLast(cb, req, now) ==
  Obj(<<Field(<<"r","o","u","t","e">>, ObjectAssign(Obj(<<>>), req.params)),
        Field(<<"q","u","e","r","y">>, ObjectAssign(ObjectAssign(Obj(<<>>), req.query), cb.request.query)),
        Field(<<"h","e","a","d","e","r","s">>,
              ObjectAssign(ObjectAssign(Obj(<<>>), req.headers), cb.request.headers)),
        Field(<<"p","a","y","l","o","a","d">>,
              ObjectAssign(ObjectAssign(Obj(<<>>), req.body), cb.request.payload)),
        Field(<<"t","i","m","e">>, Str(NatToText(now)))>>)

\* ContentBuilder._buildRequestContext; now is the reading of the clock.
BuildRequestContext(cb, req, now) ==
  Obj(<<Field(<<"r","o","u","t","e">>, ObjectAssign(Obj(<<>>), req.params)),
        Field(<<"q","u","e","r","y">>, ObjectAssign(ObjectAssign(Obj(<<>>), cb.request.query), req.query)),
        Field(<<"h","e","a","d","e","r","s">>,
              ObjectAssign(ObjectAssign(Obj(<<>>), cb.request.headers), req.headers)),
        Field(<<"p","a","y","l","o","a","d">>,
              ObjectAssign(ObjectAssign(Obj(<<>>), cb.request.payload), req.body)),
        Field(<<"t","i","m","e">>, Str(NatToText(now)))>>)

\* The validation sources the model's specifications use, each a line of
\* JavaScript the code turns into ({ route, query, headers, payload }) => T.
SrcTrue == <<"t","r","u","e">>
SrcFalse == <<"f","a","l","s","e">>
SrcUndefined == <<"u","n","d","e","f","i","n","e","d">>
SrcOne == <<"1">>
SrcPayloadB == <<"p","a","y","l","o","a","d",".","b">>
SrcPayloadSize == <<"O","b","j","e","c","t",".","k","e","y","s","(","p","a","y","l","o","a","d",")",".","l","e","n","g","t","h"," ","=","=","="," ","2">>
SrcRouteId == <<"r","o","u","t","e",".","i","d"," ",">"," ","0">>
SrcPayloadAB == <<"p","a","y","l","o","a","d",".","a",".","b"," ","=","=","="," ","t","r","u","e">>

\* x > 0 on a route parameter or payload value: undefined, a string that is
\* no numeral, null and false are not above zero.
AboveZero(x) ==
  LET positive(n) == IsNum(n) /\ n.v > 0
  IN CASE x.t = "num" -> x.v > 0
       [] x.t = "bool" -> x.v
       [] x.t \in {"str", "arr", "obj"} -> positive(StringToNumber(ToText(x)))
       [] OTHER -> FALSE

\* Function('process', 'require', `"use strict"; return (...) => ${T}`)()(ctx)
\* for the sources above; any other source is an identifier that is not
\* defined, whose evaluation raises a ReferenceError.
EvalValidation(T, ctx) ==
  LET isTrue(b) == IF IsThrown(b) THEN Thrown ELSE Bool(IsTrue(b))
      of(payload, route) ==
        CASE T = SrcTrue -> Bool(TRUE)
          [] T = SrcFalse -> Bool(FALSE)
          [] T = SrcUndefined -> Undefined
          [] T = SrcOne -> Num(1)
          [] T = SrcPayloadB -> Prop(payload, <<"b">>)
          [] T = SrcPayloadSize -> Bool(Len(payload.v) = 2)
          [] T = SrcRouteId -> Bool(AboveZero(Prop(route, <<"i","d">>)))
          [] T = SrcPayloadAB -> isTrue(Prop(Prop(payload, <<"a">>), <<"b">>))
          [] OTHER -> Thrown
  IN of(Prop(ctx, <<"p","a","y","l","o","a","d">>), Prop(ctx, <<"r","o","u","t","e">>))

\* The loop with the `continue` on undefined left out: undefined, being
\* other than true, stops it as a failure.
RECURSIVE RunValidationsStrict(_, _, _)
RunValidationsStrict(validate, i, ctx) ==
  LET judged(rs) ==
        IF IsThrown(rs) THEN [outcome |-> "throw", at |-> i]
        ELSE IF ~IsTrue(rs) THEN [outcome |-> "failed", at |-> i]
        ELSE RunValidationsStrict(validate, i + 1, ctx)
  IN IF i > Len(validate) THEN [outcome |-> "passed", at |-> Len(validate)]
     ELSE judged(EvalValidation(ToText(validate[i]), ctx))

\* The loop with the test `rs !== true` left out: only undefined is passed
\* over, any other result stops it as a failure.
RECURSIVE RunValidationsSkippingOnly(_, _, _)
RunValidationsSkippingOnly(validate, i, ctx) ==
  LET judged(rs) ==
        IF IsThrown(rs) THEN [outcome |-> "throw", at |-> i]
        ELSE IF IsUndefined(rs) THEN RunValidationsSkippingOnly(validate, i + 1, ctx)
        ELSE [outcome |-> "failed", at |-> i]
  IN IF i > Len(validate) THEN [outcome |-> "passed", at |-> Len(validate)]
     ELSE judged(EvalValidation(ToText(validate[i]), ctx))

\* The loop of _validateExceptions over the validations of one case, from
\* validation i on: where it stops (a result that is neither undefined nor
\* true, or a raised error) or that it ran to the end.
RECURSIVE RunValidations(_, _, _)
RunValidations(validate, i, ctx) ==
  LET judged(rs) ==
        IF IsThrown(rs) THEN [outcome |-> "throw", at |-> i]
        ELSE IF IsUndefined(rs) THEN RunValidations(validate, i + 1, ctx)
        ELSE IF ~IsTrue(rs) THEN [outcome |-> "failed", at |-> i]
        ELSE RunValidations(validate, i + 1, ctx)
  IN IF i > Len(validate) THEN [outcome |-> "passed", at |-> Len(validate)]
     ELSE judged(EvalValidation(ToText(validate[i]), ctx))

\* The assignment of the assertion as one that adds to the header the
\* response already has: a case that fired before shows in the value.
AssignAssertionAdding(response, assertion) ==
  LET assigned(headers) ==
        IF IsObj(headers)
        THEN ObjPut(response, <<"h","e","a","d","e","r","s">>,
                    ObjectAssign(headers,
                      Obj(<<Field(<<"X","-","A","s","s","e","r","t","i","o","n">>,
                                  IF HasKey(headers, <<"X","-","A","s","s","e","r","t","i","o","n">>)
                                  THEN Str(ToText(Prop(headers, <<"X","-","A","s","s","e","r","t","i","o","n">>))
                                           \o <<","," ">> \o assertion)
                                  ELSE Str(assertion))>>)))
        ELSE response
      orEmpty(headers) == IF Truthy(headers) THEN headers ELSE Obj(<<>>)
  IN assigned(orEmpty(Prop(response, <<"h","e","a","d","e","r","s">>)))

\* The statements of _validateExceptions on the response of the case that
\* fires: response.headers is created when missing and the assertion is
\* assigned to it.  The response is the object the specification holds.
AssignAssertion(response, assertion) ==
  LET assigned(headers) ==
        IF IsObj(headers)
        THEN ObjPut(response, <<"h","e","a","d","e","r","s">>,
                    ObjectAssign(headers, Obj(<<Field(<<"X","-","A","s","s","e","r","t","i","o","n">>, Str(assertion))>>)))
        ELSE response
      orEmpty(headers) == IF Truthy(headers) THEN headers ELSE Obj(<<>>)
  IN assigned(orEmpty(Prop(response, <<"h","e","a","d","e","r","s">>)))

\* The validations a for...of loop runs over.
Iterable(validate) ==
  CASE IsArr(validate) -> validate.v
    [] IsStr(validate) -> [i \in 1..Len(validate.v) |-> Str(<<validate.v[i]>>)]
    [] OTHER -> <<>>

\* ContentBuilder._validateExceptions from the k-th entry of
\* Object.entries(this.except.cases) on.  The result names the outcome
\* ("null", "fired" or "throw"), the cases as the call leaves them, and the
\* validations that were evaluated, each as <<assertion, position>>.
RECURSIVE ValidateExceptionsFrom(_, _, _, _)
ValidateExceptionsFrom(cases, k, ctx, evaluated) ==
  LET assertion == Entries(cases)[k][1]
      caseObject == Entries(cases)[k][2]
      fired(seen, changed) ==
        [outcome |-> "fired",
         assertion |-> assertion,
         response |-> changed,
         cases |-> ObjPut(cases, assertion, ObjPut(caseObject, <<"r","e","s","p","o","n","s","e">>, changed)),
         evaluated |-> seen]
      decided(run, seen, response) ==
        IF run.outcome = "throw"
        THEN [outcome |-> "throw", cases |-> cases, evaluated |-> seen]
        ELSE IF run.outcome = "passed"
        THEN ValidateExceptionsFrom(cases, k + 1, ctx, seen)
        ELSE IF IsNull(response) \/ IsUndefined(response)
        THEN [outcome |-> "throw", cases |-> cases, evaluated |-> seen]
        ELSE fired(seen, AssignAssertion(response, assertion))
      ran(run) ==
        decided(run, evaluated \o [i \in 1..run.at |-> <<assertion, i>>],
                Prop(caseObject, <<"r","e","s","p","o","n","s","e">>))
      looped(validate) ==
        IF ~(IsArr(validate) \/ IsStr(validate))
        THEN [outcome |-> "throw", cases |-> cases, evaluated |-> evaluated]
        ELSE ran(RunValidations(Iterable(validate), 1, ctx))
  IN IF k > Len(Entries(cases))
     THEN [outcome |-> "null", cases |-> cases, evaluated |-> evaluated]
     ELSE looped(Prop(caseObject, <<"v","a","l","i","d","a","t","e">>))

\* ContentBuilder._validateExceptions
ValidateExceptions(cases, ctx) == ValidateExceptionsFrom(cases, 1, ctx, <<>>)

\* The fields _generateResponse reads of a response given as it stands in
\* the specification (an except case's) .
ResponseObject(r) ==
  [code |-> Prop(r, <<"c","o","d","e">>), headers |-> Prop(r, <<"h","e","a","d","e","r","s">>),
   data |-> Prop(r, <<"d","a","t","a">>), metadata |-> Prop(r, <<"$","d","a","t","a">>)]

\* ContentBuilder._processHeaders: JSON.stringify(undefined) is undefined.
ProcessHeaders(headers, ctx, fill) ==
  IF IsUndefined(headers) THEN Obj(<<>>)
  ELSE GenerateContent(headers, [ctx |-> ctx, lower |-> TRUE, fill |-> fill])

\* ContentBuilder._processContent
ProcessContent(data, ctx, fill) ==
  GenerateContent(data, [ctx |-> ctx, lower |-> FALSE, fill |-> fill])

\* ContentBuilder._generateResponse, with the filler fake returns and the
\* random draw d.
GenerateResponse(ctx, res, flow, fill, d) ==
  LET built(headers, processed) ==
        IF IsThrown(headers) \/ IsThrown(processed) THEN Thrown
        ELSE [t |-> "response", code |-> res.code, headers |-> headers,
              content |-> processed, flow |-> flow]
      postprocessed(content) ==
        IF IsThrown(content) THEN Thrown
        ELSE PostprocessContent(content, res.metadata, d)
  IN built(ProcessHeaders(res.headers, ctx, fill),
           postprocessed(ProcessContent(res.data, ctx, fill)))

\* ContentBuilder.generate: the builder as the call leaves it, what the call
\* returns (Thrown when it raises), the context it built and the
\* validations it evaluated.
Generate(cb, req, now, fill, d) ==
  LET responded(ctx, except) ==
        [cb |-> IF IsExceptHandler(cb.except)
                THEN [cb EXCEPT !.except.cases = except.cases]
                ELSE cb,
         ctx |-> ctx,
         evaluated |-> except.evaluated,
         out |-> IF except.outcome = "throw" THEN Thrown
                 ELSE GenerateResponse(
                        ctx,
                        IF except.outcome = "fired"
                        THEN ResponseObject(except.response) ELSE cb.response,
                        IF except.outcome = "fired"
                        THEN Str(except.assertion) ELSE Null,
                        fill, d)]
      validated(ctx) ==
        responded(ctx, IF IsExceptHandler(cb.except)
                       THEN ValidateExceptions(cb.except.cases, ctx)
                       ELSE [outcome |-> "null", evaluated |-> <<>>])
  IN validated(BuildRequestContext(cb, req, now))

\* ------------------------------------------------------------ the inputs

\* The specification files of the model, each the JSON text of the file: an
\* object literal holds its members in the order of the text.

\* "should merge the request parameters on each new call"
DocMerge ==
  Literal(<<
    Field(<<"r","e","q","u","e","s","t">>, Literal(<<
      Field(<<"r","o","u","t","e">>, Str(<<"/","m">>)),
      Field(<<"m","e","t","h","o","d">>, Str(<<"G","E","T">>)),
      Field(<<"p","a","y","l","o","a","d">>, Literal(<<Field(<<"a">>, Num(1))>>))>>)),
    Field(<<"r","e","s","p","o","n","s","e">>, Literal(<<
      Field(<<"c","o","d","e">>, Num(201)),
      Field(<<"d","a","t","a">>, Str(<<"A","=","{","p","a","y","l","o","a","d",".","a","}"," ","B","=","{","p","a","y","l","o","a","d",".","b","}">>))>>))>>)

\* "should generate response according to meta"
DocMeta ==
  Literal(<<
    Field(<<"r","e","q","u","e","s","t">>, Literal(<<
      Field(<<"r","o","u","t","e">>, Str(<<"/","i","/",":","i","d">>)),
      Field(<<"m","e","t","h","o","d">>, Str(<<"g","e","t">>)),
      Field(<<"h","e","a","d","e","r","s">>, Literal(<<Field(<<"X","-","N","a","m","e">>, Str(<<"s">>))>>)),
      Field(<<"q","u","e","r","y">>, Literal(<<Field(<<"q">>, Str(<<"d">>))>>))>>)),
    Field(<<"r","e","s","p","o","n","s","e">>, Literal(<<
      Field(<<"c","o","d","e">>, Num(200)),
      Field(<<"h","e","a","d","e","r","s">>, Literal(<<
        Field(<<"X","-","F","e","e","d","b","a","c","k">>, Str(<<"{","h","e","a","d","e","r","s",".","X","-","N","a","m","e","}">>)),
        Field(<<"X","-","Q","u","e","r","y">>, Str(<<"{","q","u","e","r","y",".","q","}">>))>>)),
      Field(<<"d","a","t","a">>, Literal(<<
        Field(<<"i","d">>, Str(<<"{","r","o","u","t","e",".","i","d","}">>)),
        Field(<<"r","e","l">>, Arr(<<Str(<<"1">>), Str(<<"2">>)>>))>>)),
      Field(<<"$","d","a","t","a">>, Literal(<<
        Field(<<"c","a","s","t">>, Literal(<<
          Field(<<"r","e","l",".","*">>, Str(<<"n","u","m","b","e","r">>)),
          Field(<<"i","d">>, Str(<<"n","u","m","b","e","r">>))>>))>>))>>))>>)

\* "should follow an exception response if validations are not ok" and the
\* two cases of "Test an API instance with actual http calls"
DocExcept ==
  Literal(<<
    Field(<<"r","e","q","u","e","s","t">>, Literal(<<
      Field(<<"r","o","u","t","e">>, Str(<<"/","e","/",":","i","d">>)),
      Field(<<"m","e","t","h","o","d">>, Str(<<"p","o","s","t">>)),
      Field(<<"q","u","e","r","y">>, Literal(<<Field(<<"q">>, Str(<<"d">>))>>)),
      Field(<<"p","a","y","l","o","a","d">>, Literal(<<Field(<<"a">>, Num(1))>>))>>)),
    Field(<<"r","e","s","p","o","n","s","e">>, Literal(<<
      Field(<<"c","o","d","e">>, Num(200)),
      Field(<<"d","a","t","a">>, Str(<<"o","k"," ","{","p","a","y","l","o","a","d",".","b","}">>))>>)),
    Field(<<"e","x","c","e","p","t">>, Literal(<<
      Field(<<"B"," ","s","e","t">>, Literal(<<
        Field(<<"v","a","l","i","d","a","t","e">>, Arr(<<Str(SrcUndefined), Str(SrcPayloadB)>>)),
        Field(<<"r","e","s","p","o","n","s","e">>, Literal(<<
          Field(<<"c","o","d","e">>, Num(400)),
          Field(<<"d","a","t","a">>, Str(<<"n","o"," ","{","p","a","y","l","o","a","d",".","b","}">>))>>))>>)),
      Field(<<"I","d"," ","s","e","t">>, Literal(<<
        Field(<<"v","a","l","i","d","a","t","e">>, Arr(<<Str(SrcRouteId)>>)),
        Field(<<"r","e","s","p","o","n","s","e">>, Literal(<<
          Field(<<"c","o","d","e">>, Num(404)),
          Field(<<"h","e","a","d","e","r","s">>, Literal(<<Field(<<"X","-","W","h","y">>, Str(<<"{","q","u","e","r","y",".","q","}">>))>>)),
          Field(<<"d","a","t","a">>, Literal(<<Field(<<"i","d">>, Str(<<"{","p","a","y","l","o","a","d",".","a","}">>))>>)),
          Field(<<"$","d","a","t","a">>, Literal(<<
            Field(<<"c","a","s","t">>, Literal(<<Field(<<"i","d">>, Str(<<"n","u","m","b","e","r">>))>>))>>))>>))>>))>>))>>)

\* Except cases named by status codes, and one whose name holds a
\* placeholder.
DocCodes ==
  Literal(<<
    Field(<<"r","e","q","u","e","s","t">>, Literal(<<
      Field(<<"r","o","u","t","e">>, Str(<<"/","c">>)),
      Field(<<"m","e","t","h","o","d">>, Str(<<"p","u","t">>)),
      Field(<<"p","a","y","l","o","a","d">>, Literal(<<Field(<<"a">>, Num(1))>>))>>)),
    Field(<<"r","e","s","p","o","n","s","e">>, Literal(<<
      Field(<<"c","o","d","e">>, Num(200)),
      Field(<<"d","a","t","a">>, Str(<<"o","k">>))>>)),
    Field(<<"e","x","c","e","p","t">>, Literal(<<
      Field(<<"5","0","0">>, Literal(<<
        Field(<<"v","a","l","i","d","a","t","e">>, Arr(<<Str(SrcPayloadB)>>)),
        Field(<<"r","e","s","p","o","n","s","e">>, Literal(<<
          Field(<<"c","o","d","e">>, Num(500)),
          Field(<<"d","a","t","a">>, Str(<<"b">>))>>))>>)),
      Field(<<"4","0","4">>, Literal(<<
        Field(<<"v","a","l","i","d","a","t","e">>, Arr(<<Str(SrcPayloadSize)>>)),
        Field(<<"r","e","s","p","o","n","s","e">>, Literal(<<
          Field(<<"c","o","d","e">>, Num(404)),
          Field(<<"d","a","t","a">>, Str(<<"s","i","z","e">>))>>))>>)),
      Field(<<"n","e","e","d"," ","{","p","a","y","l","o","a","d",".","a","}">>, Literal(<<
        Field(<<"v","a","l","i","d","a","t","e">>, Arr(<<Str(SrcTrue), Str(SrcPayloadAB), Str(SrcOne)>>)),
        Field(<<"r","e","s","p","o","n","s","e">>, Literal(<<
          Field(<<"c","o","d","e">>, Str(<<"4","2","2">>)),
          Field(<<"d","a","t","a">>, Str(<<"a",".","b">>))>>))>>))>>))>>)

\* The cast and repeat example: every element of the repeated list is cast.
DocRepeat ==
  Literal(<<
    Field(<<"r","e","q","u","e","s","t">>, Literal(<<
      Field(<<"r","o","u","t","e">>, Str(<<"/","r">>)),
      Field(<<"m","e","t","h","o","d">>, Str(<<"g","e","t">>))>>)),
    Field(<<"r","e","s","p","o","n","s","e">>, Literal(<<
      Field(<<"c","o","d","e">>, Num(200)),
      Field(<<"d","a","t","a">>, Arr(<<Str(<<"1">>), Str(<<"2">>)>>)),
      Field(<<"$","d","a","t","a">>, Literal(<<
        Field(<<"c","a","s","t">>, Literal(<<Field(<<"*">>, Str(<<"n","u","m","b","e","r">>))>>)),
        Field(<<"r","e","p","e","a","t">>, Str(<<"1",".",".","2">>))>>))>>))>>)

\* A repeated list whose first element alone is cast.
DocRepeatFirst ==
  Literal(<<
    Field(<<"r","e","q","u","e","s","t">>, Literal(<<
      Field(<<"r","o","u","t","e">>, Str(<<"/","r","1">>)),
      Field(<<"m","e","t","h","o","d">>, Str(<<"g","e","t">>))>>)),
    Field(<<"r","e","s","p","o","n","s","e">>, Literal(<<
      Field(<<"c","o","d","e">>, Num(200)),
      Field(<<"d","a","t","a">>, Arr(<<Str(<<"1">>), Str(<<"x">>)>>)),
      Field(<<"$","d","a","t","a">>, Literal(<<
        Field(<<"r","e","p","e","a","t">>, Str(<<"2">>)),
        Field(<<"c","a","s","t">>, Literal(<<Field(<<"0">>, Str(<<"n","u","m","b","e","r">>))>>))>>))>>))>>)

\* Generated filler and the time of the request.
DocFiller ==
  Literal(<<
    Field(<<"r","e","q","u","e","s","t">>, Literal(<<
      Field(<<"r","o","u","t","e">>, Str(<<"/","f">>)),
      Field(<<"m","e","t","h","o","d">>, Str(<<"g","e","t">>))>>)),
    Field(<<"r","e","s","p","o","n","s","e">>, Literal(<<
      Field(<<"c","o","d","e">>, Num(200)),
      Field(<<"d","a","t","a">>, Literal(<<
        Field(<<"n">>, Str(<<"{","{","n","a","m","e",".","f","i","r","s","t","N","a","m","e","}","}">>)),
        Field(<<"t">>, Str(<<"{","t","i","m","e","}">>))>>))>>))>>)

\* A response without data.
DocNoData ==
  Literal(<<
    Field(<<"r","e","q","u","e","s","t">>, Literal(<<
      Field(<<"r","o","u","t","e">>, Str(<<"/","n">>)),
      Field(<<"m","e","t","h","o","d">>, Str(<<"d","e","l","e","t","e">>))>>)),
    Field(<<"r","e","s","p","o","n","s","e">>, Literal(<<Field(<<"c","o","d","e">>, Num(204))>>))>>)

\* "should fail if method is not supported"
DocBadMethod ==
  Literal(<<
    Field(<<"r","e","q","u","e","s","t">>, Literal(<<
      Field(<<"r","o","u","t","e">>, Str(<<"/","x">>)),
      Field(<<"m","e","t","h","o","d">>, Str(<<"f","e","t","c","h">>))>>)),
    Field(<<"r","e","s","p","o","n","s","e">>, Literal(<<
      Field(<<"c","o","d","e">>, Num(200)),
      Field(<<"d","a","t","a">>, Str(<<"x">>))>>))>>)

\* An except case without validations.
DocBadCase ==
  Literal(<<
    Field(<<"r","e","q","u","e","s","t">>, Literal(<<
      Field(<<"r","o","u","t","e">>, Str(<<"/","y">>)),
      Field(<<"m","e","t","h","o","d">>, Str(<<"g","e","t">>))>>)),
    Field(<<"r","e","s","p","o","n","s","e">>, Literal(<<
      Field(<<"c","o","d","e">>, Num(200)),
      Field(<<"d","a","t","a">>, Str(<<"y">>))>>)),
    Field(<<"e","x","c","e","p","t">>, Literal(<<
      Field(<<"E">>, Literal(<<
        Field(<<"v","a","l","i","d","a","t","e">>, Arr(<<>>)),
        Field(<<"r","e","s","p","o","n","s","e">>, Literal(<<
          Field(<<"c","o","d","e">>, Num(400)),
          Field(<<"d","a","t","a">>, Str(<<"e">>))>>))>>))>>))>>)

\* A cast of a field below a text, which the validation of the metadata
\* reads as the text itself, and an except case whose response has a
\* header named as the assertion header, in small letters.
DocCastBelowText ==
  Literal(<<
    Field(<<"r","e","q","u","e","s","t">>, Literal(<<
      Field(<<"r","o","u","t","e">>, Str(<<"/","t">>)),
      Field(<<"m","e","t","h","o","d">>, Str(<<"p","u","t">>))>>)),
    Field(<<"r","e","s","p","o","n","s","e">>, Literal(<<
      Field(<<"c","o","d","e">>, Num(200)),
      Field(<<"d","a","t","a">>, Literal(<<Field(<<"a">>, Str(<<"x">>))>>)),
      Field(<<"$","d","a","t","a">>, Literal(<<
        Field(<<"c","a","s","t">>, Literal(<<Field(<<"a",".","b">>, Str(<<"n","u","m","b","e","r">>))>>))>>))>>)),
    Field(<<"e","x","c","e","p","t">>, Literal(<<
      Field(<<"B"," ","s","e","t">>, Literal(<<
        Field(<<"v","a","l","i","d","a","t","e">>, Arr(<<Str(SrcPayloadB)>>)),
        Field(<<"r","e","s","p","o","n","s","e">>, Literal(<<
          Field(<<"c","o","d","e">>, Num(400)),
          Field(<<"h","e","a","d","e","r","s">>, Literal(<<Field(<<"x","-","a","s","s","e","r","t","i","o","n">>, Str(<<"m","i","n","e">>))>>)),
          Field(<<"d","a","t","a">>, Literal(<<Field(<<"l","i","s","t">>, Arr(<<Literal(<<>>)>>))>>)),
          Field(<<"$","d","a","t","a">>, Literal(<<
            Field(<<"c","a","s","t">>, Literal(<<Field(<<"l","i","s","t",".","*",".","i","d">>, Str(<<"b","o","o","l","e","a","n">>))>>))>>))>>))>>))>>))>>)

\* A repeated list of objects whose id is cast by a wildcard path; one id
\* is no numeral.
DocRepeatObjects ==
  Literal(<<
    Field(<<"r","e","q","u","e","s","t">>, Literal(<<
      Field(<<"r","o","u","t","e">>, Str(<<"/","r","o">>)),
      Field(<<"m","e","t","h","o","d">>, Str(<<"g","e","t">>))>>)),
    Field(<<"r","e","s","p","o","n","s","e">>, Literal(<<
      Field(<<"c","o","d","e">>, Num(200)),
      Field(<<"d","a","t","a">>, Arr(<<Literal(<<Field(<<"i","d">>, Str(<<"1">>))>>),
                            Literal(<<Field(<<"i","d">>, Str(<<"x">>))>>)>>)),
      Field(<<"$","d","a","t","a">>, Literal(<<
        Field(<<"r","e","p","e","a","t">>, Str(<<"1",".",".","2">>)),
        Field(<<"c","a","s","t">>, Literal(<<Field(<<"*",".","i","d">>, Str(<<"n","u","m","b","e","r">>))>>))>>))>>))>>)

\* The files a scanned directory may hold, in the order readdirSync lists
\* them.
Catalog ==
  <<DocMerge, DocExcept, DocBadMethod, DocCodes, DocBadCase, DocMeta,
    DocRepeat, DocRepeatFirst, DocFiller, DocNoData, DocCastBelowText,
    DocRepeatObjects>>

\* A directory holds at most MaxFiles files, consecutive in the catalog.
MaxFiles == 2
Directories ==
  LET runs(files) ==
        {SubSeq(files, run[1], run[2]) :
           run \in {r \in (1..Len(files)) \X (0..Len(files)) :
                      r[2] - r[1] + 1 \in 0..MaxFiles}}
  IN runs(Catalog)

\* The incoming requests: params, query, headers and body as the HTTP
\* layer hands them over (undefined when it has none).
Incoming(params, query, headers, body) ==
  [params |-> params, query |-> query, headers |-> headers, body |-> body]
Requests ==
  {Incoming(Undefined, Undefined, Undefined, Undefined),
   Incoming(Undefined, Undefined, Undefined, Declared(<<Field(<<"b">>, Num(2))>>)),
   Incoming(Declared(<<Field(<<"i","d">>, Str(<<"7">>))>>), Obj(<<>>), Obj(<<>>),
            Declared(<<Field(<<"b">>, Bool(TRUE))>>)),
   Incoming(Obj(<<>>), Obj(<<>>), Obj(<<>>),
            Declared(<<Field(<<"b">>, Num(2)), Field(<<"c">>, Num(3))>>)),
   Incoming(Declared(<<Field(<<"i","d">>, Str(<<"0">>))>>),
            Declared(<<Field(<<"q">>, Str(<<"l">>))>>),
            Declared(<<Field(<<"x","-","n","a","m","e">>, Str(<<"L">>))>>),
            Declared(<<Field(<<"a">>, Num(5))>>))}

\* What a call finds outside the program: the reading of the clock and the
\* name fake generates.
Outside == {[now |-> 1, fill |-> <<"A","n","n">>], [now |-> 2, fill |-> <<"B","o">>]}

\* ------------------------------------------------------------------ serve

VARIABLES
  dir,        \* the files of the scanned directory
  allowJs,    \* the --allow-js flag
  pc,         \* "scanning", "listening" or "exited"
  scanned,    \* the number of files the loop of serve has taken
  builders,   \* the registered builders, each with the position of its file
  exitCode,   \* the code of process.exit, 0 while the process runs
  reported,   \* what was printed: "failure", "security", "empty", "running"
  last        \* the last call of generate, NoCall before the first

vars == <<dir, allowJs, pc, scanned, builders, exitCode, reported, last>>

NoCall == [t |-> "none"]

Init ==
  /\ dir \in Directories
  /\ allowJs \in BOOLEAN
  /\ pc = "scanning"
  /\ scanned = 0
  /\ builders = <<>>
  /\ exitCode = 0
  /\ reported = <<>>
  /\ last = NoCall

\* process.exit(code) after console.log of a message
Exit(code, message) ==
  /\ pc' = "exited"
  /\ exitCode' = code
  /\ reported' = Append(reported, message)

\* The condition of serve with the test of the flag turned round: the
\* permission is asked for when it was given.
PermissionRequiredInverted(cb, allow) == ~IsNull(cb.except) /\ allow = TRUE

\* The condition of serve on a builder just made: cb.except !== null &&
\* allowJs !== true.
PermissionRequired(cb, allow) == ~IsNull(cb.except) /\ allow # TRUE

\* One turn of the loop of serve: scanDirectory parses the next file and the
\* builder is made of it; an error of the constructor, or an except handler
\* without --allow-js, is caught by the catch clause around the loop, which
\* ends the process.
ScanFile ==
  /\ pc = "scanning"
  /\ scanned < Len(dir)
  /\ \E cb \in {ContentBuilder(JsonParse(dir[scanned + 1]))} :
        IF IsThrown(cb)
        THEN /\ Exit(1, "failure")
             /\ UNCHANGED <<scanned, builders>>
        ELSE IF PermissionRequired(cb, allowJs)
        THEN /\ Exit(1, "security")
             /\ UNCHANGED <<scanned, builders>>
        ELSE /\ builders' = Append(builders, [file |-> scanned + 1, cb |-> cb])
             /\ scanned' = scanned + 1
             /\ UNCHANGED <<pc, exitCode, reported>>
  /\ UNCHANGED <<dir, allowJs, last>>

\* The end of serve: without a registered file the process ends, otherwise
\* the server listens.
Listen ==
  /\ pc = "scanning"
  /\ scanned = Len(dir)
  /\ IF Len(builders) = 0
     THEN Exit(2, "empty")
     ELSE /\ pc' = "listening"
          /\ reported' = Append(reported, "running")
          /\ UNCHANGED exitCode
  /\ UNCHANGED <<dir, allowJs, scanned, builders, last>>

\* The handler registerHttpCall registers for builder i, on a request.
HandleRequest(i, req, now, fill, d) ==
  /\ pc = "listening"
  /\ \E call \in {Generate(builders[i].cb, req, now, fill, d)} :
        /\ builders' = [builders EXCEPT ![i].cb = call.cb]
        /\ last' = [t |-> "call", builder |-> i, before |-> builders[i].cb,
                    req |-> req, now |-> now, fill |-> fill, d |-> d,
                    ctx |-> call.ctx, evaluated |-> call.evaluated, out |-> call.out]
  /\ UNCHANGED <<dir, allowJs, pc, scanned, exitCode, reported>>

Next ==
  \/ ScanFile
  \/ Listen
  \/ \E i \in 1..Len(builders), req \in Requests, out \in Outside, d \in Draws :
       HandleRequest(i, req, out.now, out.fill, d)

Spec == Init /\ [][Next]_vars

\* ---------------------------------------------------------------- library

\* The functions of lib.js called on their own, as the tests call them: the
\* process serves nothing (pc stays "library") and the variable last holds
\* the arguments drawn for one function and, after its action, the results.

\* The scalars the arguments are made of.
Leaves ==
  <<Num(0), Num(7), Bool(FALSE), Str(<<>>), Str(<<"5">>), Str(<<"F","a","l","s","e">>), Null,
    Str(<<"$","&">>), Str(<<"{","o",".","b","}">>)>>

\* The source of a context manager: a scalar, a nested object, a list of
\* scalars, a list of objects that all have an id and one where an element
\* has none.
Source(x, y) ==
  Declared(<<Field(<<"a">>, x),
             Field(<<"o">>, Declared(<<Field(<<"b">>, y)>>)),
             Field(<<"l","i","s","t">>, Arr(<<x, y>>)),
             Field(<<"p","a","i","r","s">>, Arr(<<Declared(<<Field(<<"i","d">>, y)>>),
                                    Declared(<<Field(<<"i","d">>, x)>>)>>)),
             Field(<<"r","o","w","s">>, Arr(<<Declared(<<Field(<<"i","d">>, x)>>), Obj(<<>>),
                                   Declared(<<Field(<<"i","d">>, y)>>)>>))>>)

\* The fields asked of it, and the content callbacks.
Fields ==
  <<<<"a">>, <<"a",".","b">>, <<"o",".","b">>, <<"o",".","c">>, <<"l","i","s","t",".","*">>, <<"l","i","s","t",".","1">>, <<"p","a","i","r","s",".","*",".","i","d">>,
    <<"p","a","i","r","s",".","0",".","i","d">>, <<"r","o","w","s",".","*",".","i","d">>, <<"z","z",".","q">>>>
Contents == <<CastCallback(<<"n","u","m","b","e","r">>), CastCallback(<<"s","t","r","i","n","g">>), CastCallback(<<"b","o","o","l","e","a","n">>)>>

\* A context manager takes at most MaxCalls calls.
MaxCalls == 3

\* new ContextManager(src)
InitContext ==
  \E x, y \in 1..Len(Leaves), f \in 1..Len(Fields), c \in 1..Len(Contents) :
    last = [t |-> "context", ctx |-> Source(Leaves[x], Leaves[y]),
            field |-> Fields[f], content |-> Contents[c], calls |-> <<>>]

\* The templates generateContent is given, and its text callback: the one
\* of _processContent, on a context made of the same scalars.
Template(x, y) ==
  <<x,
    Arr(<<x, Str(<<"{","o",".","b","}","!">>), y>>),
    Declared(<<Field(<<"a">>, x), Field(<<"b">>, Arr(<<y>>))>>),
    Arr(<<Declared(<<Field(<<"i","d">>, x)>>), Arr(<<>>),
          Declared(<<Field(<<"7">>, Str(<<"{","l","i","s","t",".","*","}">>)), Field(<<"i","d">>, y)>>)>>)>>
InitTemplate ==
  \E x, y \in 1..Len(Leaves), k \in 1..Len(Template(Null, Null)) :
    last = [t |-> "template", data |-> Template(Leaves[x], Leaves[y])[k],
            tf |-> [ctx |-> Source(Leaves[y], Leaves[x]), lower |-> FALSE, fill |-> <<"A","n","n">>]]

\* The texts interpret is given, on a context made of the same scalars.
Texts ==
  <<<<"{","a","}","-","{","o",".","b","}","-","{","a","}">>, <<"I","s"," ","{"," ","a"," ","}"," ","{","z","z","}","?">>, <<"{","A","}"," ","{","l","i","s","t",".","*","}">>, <<"{","{","o",".","b","}","}"," ","{","p","a","i","r","s",".","*",".","i","d","}">>>>
InitText ==
  \E x, y \in 1..Len(Leaves), k \in 1..Len(Texts), lower \in BOOLEAN :
    last = [t |-> "text", text |-> Texts[k], ctx |-> Source(Leaves[x], Leaves[y]),
            lower |-> lower]

\* The lists and the formulas repeatContent is given: lists of 0, 1, 3 and
\* 5 elements, fixed numbers and ranges with both, one or no bound.
Formulas ==
  <<<<"0">>, <<"2">>, <<"3">>, <<"1",".",".","2">>, <<"2",".",".","3">>, <<"2",".",".","2">>, <<"1",".",".">>, <<".",".">>,
    <<"0",".",".","1">>, <<"0",".",".","0">>, <<"5",".",".","1","0">>, <<"1","0",".",".","2","0">>>>
InitList ==
  \E x, y \in 1..Len(Leaves), n \in {0, 1, 3, 5}, k \in 1..Len(Formulas) :
    last = [t |-> "list",
            list |-> Arr(SubSeq(<<Leaves[x], Leaves[y], Leaves[x], Leaves[y], Leaves[x]>>, 1, n)),
            formula |-> Formulas[k]]

\* The types and the values castContent is given: the three cast options
\* and the unsupported type of the tests, on scalars, arrays and objects.
Types == <<<<"n","u","m","b","e","r">>, <<"b","o","o","l","e","a","n">>, <<"s","t","r","i","n","g">>, <<"x","x","x","x","x","x","x">>>>
InitValue ==
  \E x, y \in 1..Len(Leaves), k \in 1..Len(Template(Null, Null)), c \in 1..Len(Types) :
    last = [t |-> "value", type |-> Types[c], value |-> Template(Leaves[x], Leaves[y])[k]]

\* The response objects ResponseHandler is made of: codes in and out of
\* range, as numbers and as texts, data that is text, a list, a list of
\* objects, an object or missing, and metadata with cast paths and repeat
\* formulas that fit the data or do not.  Undefined is a member left out.
ResponseParts ==
  [code |-> <<Num(0), Num(99), Num(100), Num(204), Num(599), Num(600),
              Str(<<"4","0","4">>), Str(<<"2","0","0"," ","O","K">>), Str(<<"a","b","c">>), Bool(TRUE), Undefined>>,
   data |-> <<Undefined, Null, Str(<<"t","e","x","t">>), Arr(<<Str(<<"1">>), Str(<<"2">>)>>),
              Arr(<<Declared(<<Field(<<"i","d">>, Str(<<"1">>))>>), Obj(<<>>)>>),
              Declared(<<Field(<<"a">>, Str(<<"x">>)), Field(<<"n">>, Num(0))>>)>>,
   metadata |->
     <<Undefined,
       Declared(<<Field(<<"c","a","s","t">>, Declared(<<Field(<<"*">>, Str(<<"n","u","m","b","e","r">>))>>)),
                  Field(<<"r","e","p","e","a","t">>, Str(<<"1","0",".",".","2","0">>))>>),
       Declared(<<Field(<<"r","e","p","e","a","t">>, Str(<<"3">>))>>),
       Declared(<<Field(<<"r","e","p","e","a","t">>, Str(<<"-","1">>))>>),
       Declared(<<Field(<<"r","e","p","e","a","t">>, Str(<<"x">>))>>),
       Declared(<<Field(<<"r","e","p","e","a","t">>, Str(<<"-","2",".",".","3">>))>>),
       Declared(<<Field(<<"r","e","p","e","a","t">>, Str(<<"2",".",".","x">>))>>),
       Declared(<<Field(<<"r","e","p","e","a","t">>, Str(<<".",".","2">>))>>),
       Declared(<<Field(<<"c","a","s","t">>, Declared(<<Field(<<"a">>, Str(<<"n","u","m","b","e","r">>))>>))>>),
       Declared(<<Field(<<"c","a","s","t">>, Declared(<<Field(<<"a",".","b">>, Str(<<"n","u","m","b","e","r">>))>>))>>),
       Declared(<<Field(<<"c","a","s","t">>, Declared(<<Field(<<"n">>, Str(<<"s","t","r","i","n","g">>))>>))>>),
       Declared(<<Field(<<"c","a","s","t">>, Declared(<<Field(<<"z","z">>, Str(<<"s","t","r","i","n","g">>))>>))>>),
       Declared(<<Field(<<"c","a","s","t">>, Declared(<<Field(<<"*",".","i","d">>, Str(<<"b","o","o","l","e","a","n">>))>>))>>),
       Declared(<<Field(<<"c","a","s","t">>, Declared(<<Field(<<"*",".","z","z">>, Str(<<"b","o","o","l","e","a","n">>))>>))>>),
       Declared(<<Field(<<"c","a","s","t">>, Declared(<<Field(<<"a">>, Str(<<"x","x","x","x","x","x","x">>))>>))>>)>>]
InitResponse ==
  \E c \in 1..Len(ResponseParts.code), d \in 1..Len(ResponseParts.data),
     m \in 1..Len(ResponseParts.metadata) :
    last = [t |-> "response",
            r |-> Declared(<<Field(<<"c","o","d","e">>, ResponseParts.code[c]),
                             Field(<<"d","a","t","a">>, ResponseParts.data[d]),
                             Field(<<"$","d","a","t","a">>, ResponseParts.metadata[m])>>)]

\* The request objects RequestHandler is made of: methods in either case,
\* supported or not, routes that are empty, blank or no text, queries with
\* text, lists and other values, and payloads of every kind.
RequestParts ==
  [method |-> <<Str(<<"G","E","T">>), Str(<<"p","a","t","c","h">>), Str(<<"o","p","t","i","o","n","s">>), Str(<<>>), Undefined>>,
   route |-> <<Str(<<"/">>), Str(<<" ","/","m"," ">>), Str(<<" "," ">>), Str(<<>>), Num(7), Undefined>>,
   query |-> <<Undefined, Obj(<<>>),
               Declared(<<Field(<<"p","a","r","a","m","1">>, Str(<<"t","e","s","t">>)),
                          Field(<<"p","a","r","a","m","2">>, Arr(<<Str(<<"t","e","s","t"," ","2">>)>>))>>),
               Declared(<<Field(<<"p","a","r","a","m","1">>, Bool(TRUE))>>),
               Declared(<<Field(<<"p","a","r","a","m","2">>, Arr(<<Str(<<"a">>), Num(1)>>))>>),
               Declared(<<Field(<<"p","a","r","a","m","2">>, Declared(<<Field(<<"x">>, Num(1))>>))>>),
               Arr(<<Str(<<"a">>)>>), Null>>,
   payload |-> <<Undefined, Obj(<<>>), Declared(<<Field(<<"t","i","t","l","e">>, Str(<<"T","h","e">>))>>),
                 Str(<<"d","G","V","4","d","A","=","=">>), Str(<<>>), Arr(<<Str(<<"t","e","s","t">>)>>), Arr(<<>>),
                 Num(7), Null>>]
InitRequest ==
  \E m \in 1..Len(RequestParts.method), r \in 1..Len(RequestParts.route),
     q \in 1..Len(RequestParts.query), p \in 1..Len(RequestParts.payload) :
    last = [t |-> "request",
            r |-> Declared(<<Field(<<"m","e","t","h","o","d">>, RequestParts.method[m]),
                             Field(<<"r","o","u","t","e">>, RequestParts.route[r]),
                             Field(<<"q","u","e","r","y">>, RequestParts.query[q]),
                             Field(<<"p","a","y","l","o","a","d">>, RequestParts.payload[p])>>)]

InitLib ==
  /\ dir = <<>>
  /\ allowJs = FALSE
  /\ pc = "library"
  /\ scanned = 0
  /\ builders = <<>>
  /\ exitCode = 0
  /\ reported = <<>>
  /\ InitContext \/ InitTemplate \/ InitText \/ InitList \/ InitValue \/ InitResponse
     \/ InitRequest

\* ctx.get(field)
ContextGet ==
  /\ last.t = "context"
  /\ Len(last.calls) < MaxCalls
  /\ last' = [last EXCEPT !.calls =
                Append(@, [op |-> "get", ctx |-> last.ctx,
                           result |-> CmGet(last.ctx, last.field)])]
  /\ UNCHANGED <<dir, allowJs, pc, scanned, builders, exitCode, reported>>

\* ctx.set(field, content): the source is changed in place; a TypeError
\* of write ends the use of the context.
ContextSet ==
  /\ last.t = "context"
  /\ Len(last.calls) < MaxCalls
  /\ \E written \in {CmSet(last.ctx, last.field, last.content)} :
        IF IsThrown(written)
        THEN last' = [last EXCEPT !.t = "raised"]
        ELSE last' = [last EXCEPT !.ctx = written,
                                  !.calls = Append(@, [op |-> "set", ctx |-> last.ctx,
                                                       result |-> written])]
  /\ UNCHANGED <<dir, allowJs, pc, scanned, builders, exitCode, reported>>

\* generateContent(JSON.stringify(data), tf)
GenerateContentCall ==
  /\ last.t = "template"
  /\ last' = [t |-> "generated", data |-> last.data, tf |-> last.tf,
              out |-> GenerateContent(last.data, last.tf)]
  /\ UNCHANGED <<dir, allowJs, pc, scanned, builders, exitCode, reported>>

\* interpret(text, ctx, lower)
InterpretCall ==
  /\ last.t = "text"
  /\ last' = [t |-> "interpreted", text |-> last.text, ctx |-> last.ctx,
              lower |-> last.lower, out |-> Interpret(last.text, last.ctx, last.lower)]
  /\ UNCHANGED <<dir, allowJs, pc, scanned, builders, exitCode, reported>>

\* repeatContent(list, formula), with the random draw d
RepeatContentCall(d) ==
  /\ last.t = "list"
  /\ last' = [t |-> "repeated", list |-> last.list, formula |-> last.formula,
              d |-> d, out |-> RepeatContent(last.list, last.formula, d)]
  /\ UNCHANGED <<dir, allowJs, pc, scanned, builders, exitCode, reported>>

\* castContent(type, value)
CastContentCall ==
  /\ last.t = "value"
  /\ last' = [t |-> "cast", type |-> last.type, value |-> last.value,
              out |-> CastContent(last.type, last.value)]
  /\ UNCHANGED <<dir, allowJs, pc, scanned, builders, exitCode, reported>>

\* new ResponseHandler(r)
ResponseHandlerCall ==
  /\ last.t = "response"
  /\ last' = [t |-> "ResponseHandler", r |-> last.r, out |-> ResponseHandler(last.r)]
  /\ UNCHANGED <<dir, allowJs, pc, scanned, builders, exitCode, reported>>

\* new RequestHandler(r)
RequestHandlerCall ==
  /\ last.t = "request"
  /\ last' = [t |-> "RequestHandler", r |-> last.r, out |-> RequestHandler(last.r)]
  /\ UNCHANGED <<dir, allowJs, pc, scanned, builders, exitCode, reported>>

NextLib ==
  \/ ContextGet
  \/ ContextSet
  \/ GenerateContentCall
  \/ InterpretCall
  \/ \E d \in Draws : RepeatContentCall(d)
  \/ CastContentCall
  \/ ResponseHandlerCall
  \/ RequestHandlerCall

SpecLib == InitLib /\ [][NextLib]_vars

\* ------------------------------------------------------------ properties

\* A call of generate has been made; it returned a response.
Called == last.t = "call"
Returned == Called /\ ~IsThrown(last.out)

\* The builder the constructor makes of the file of the i-th registered
\* builder.
Constructed(i) == ContentBuilder(JsonParse(dir[builders[i].file]))

\* The value of a member of an object literal; the names of the except cases
\* of a file in the order of its text.
Member(text, name) ==
  IF text.t = "literal" /\ \E i \in 1..Len(text.v) : text.v[i][1] = name
  THEN text.v[CHOOSE i \in 1..Len(text.v) : text.v[i][1] = name][2]
  ELSE Undefined
DeclaredCases(text) ==
  LET names(except) ==
        IF except.t = "literal" THEN [i \in 1..Len(except.v) |-> except.v[i][1]] ELSE <<>>
  IN names(Member(text, <<"e","x","c","e","p","t">>))

\* A predicate value that makes its case fire: neither undefined nor true.
\* A case fails under a context when one of its predicates has such a value.
Fails(value) == ~IsThrown(value) /\ ~IsUndefined(value) /\ ~IsTrue(value)
CaseFails(case, ctx) ==
  LET some(validate) ==
        \E j \in 1..Len(validate) : Fails(EvalValidation(ToText(validate[j]), ctx))
  IN some(Iterable(Prop(case, <<"v","a","l","i","d","a","t","e">>)))

\* The except cases of the builder the last call was made on, as entries in
\* the order the call iterates them.
CasesOfCall ==
  IF IsExceptHandler(last.before.except) THEN Entries(last.before.except.cases) ELSE <<>>

\* C1: when case A is declared before case B in the file and A's predicates
\* make it fire, the result of generate never carries B's name as its flow.
C1_DeclaredFirstWins ==
  Returned =>
    LET declared == DeclaredCases(dir[builders[last.builder].file])
        fails(a) == CaseFails(Prop(last.before.except.cases, declared[a]), last.ctx)
    IN \A a, b \in 1..Len(declared) :
         a < b /\ fails(a) => last.out.flow # Str(declared[b])

\* C2: a case whose predicates were evaluated fires exactly when one of its
\* predicates has a value that is neither undefined nor true; an undefined
\* value is skipped, and when every predicate of every case is true or
\* undefined no case fires.
C2_FiresOnFailure ==
  Returned =>
    LET tried(name) == \E e \in Range(last.evaluated) : e[1] = name
        fired(name) == last.out.flow = Str(name)
    IN /\ \A k \in 1..Len(CasesOfCall) :
            /\ fired(CasesOfCall[k][1]) => tried(CasesOfCall[k][1])
            /\ tried(CasesOfCall[k][1]) =>
                 (fired(CasesOfCall[k][1]) <=> CaseFails(CasesOfCall[k][2], last.ctx))
       /\ IsNull(last.out.flow) <=>
            \A k \in 1..Len(CasesOfCall) : ~CaseFails(CasesOfCall[k][2], last.ctx)

\* A case fired on a value its second predicate gave after the first one
\* gave undefined.
C2_Witness ==
  /\ Returned
  /\ last.out.flow = Str(<<"B"," ","s","e","t">>)
  /\ <<<<"B"," ","s","e","t">>, 2>> \in Range(last.evaluated)
  /\ IsUndefined(EvalValidation(SrcUndefined, last.ctx))

\* C3: when a case fires the result has the code and the content of the
\* case's response, the case's name as its flow, and an X-Assertion header
\* whose value is the case's name exactly.
C3_FiredCaseResponse ==
  Returned /\ ~IsNull(last.out.flow) =>
    \E k \in 1..Len(CasesOfCall) :
       LET name == CasesOfCall[k][1]
           response == ResponseObject(Prop(CasesOfCall[k][2], <<"r","e","s","p","o","n","s","e">>))
       IN /\ last.out.flow = Str(name)
          /\ last.out.code = response.code
          /\ last.out.content =
               PostprocessContent(ProcessContent(response.data, last.ctx, last.fill),
                                  response.metadata, last.d)
          /\ HasKey(last.out.headers, <<"X","-","A","s","s","e","r","t","i","o","n">>)
          /\ Prop(last.out.headers, <<"X","-","A","s","s","e","r","t","i","o","n">>) = Str(name)

\* No case of the builder of the last call fails under the context of the
\* call (a builder without except cases has none).
NoCaseFails == \A k \in 1..Len(CasesOfCall) : ~CaseFails(CasesOfCall[k][2], last.ctx)

\* C4: when no case fires, or there are no cases, generate returns the
\* default code, the headers made of the default header template alone
\* (without an X-Assertion entry), the content made of the default data, and
\* a null flow.
C4_DefaultResponse ==
  Returned /\ NoCaseFails =>
    LET default == last.before.response
    IN /\ last.out.code = default.code
       /\ last.out.headers = ProcessHeaders(default.headers, last.ctx, last.fill)
       /\ Keys(last.out.headers) = Keys(default.headers)
       /\ ~HasKey(last.out.headers, <<"X","-","A","s","s","e","r","t","i","o","n">>)
       /\ last.out.content =
            PostprocessContent(ProcessContent(default.data, last.ctx, last.fill),
                               default.metadata, last.d)
       /\ IsNull(last.out.flow)

\* The default response was returned by a builder with cases none of which
\* fired, and by a builder without cases.
C4_Witness ==
  /\ Returned
  /\ NoCaseFails
  /\ Len(CasesOfCall) > 0
  /\ last.evaluated # <<>>
  /\ IsNull(last.out.flow)

\* The keys of a value handed to Object.assign as a source.
SourceKeys(source) == IF IsObj(source) THEN KeySet(source) ELSE {}

\* A section of the context holds the keys of the default and of the live
\* value, each with the live value where the request has the key and with
\* the default value otherwise.
MergedSection(merged, default, live) ==
  /\ IsObj(merged)
  /\ KeySet(merged) = SourceKeys(default) \cup SourceKeys(live)
  /\ \A k \in KeySet(merged) :
       Prop(merged, k) = IF k \in SourceKeys(live) THEN Prop(live, k) ELSE Prop(default, k)

\* The request carries the body {b: 2}.
BodyB2 ==
  /\ IsObj(last.req.body)
  /\ Keys(last.req.body) = <<<<"b">>>>
  /\ IsNum(Prop(last.req.body, <<"b">>))
  /\ Prop(last.req.body, <<"b">>).v = 2

\* C5: the context of a call holds, for query, headers and payload, the
\* live value of every key of the request and the default value of every
\* key only the specification has; route holds the live route parameters
\* alone; and the placeholders of the response are resolved against it:
\* default payload {a: 1} with body {b: 2} gives "A=1 B=2" for
\* "A={payload.a} B={payload.b}".
C5_ContextMerge ==
  Called =>
    /\ MergedSection(Prop(last.ctx, <<"q","u","e","r","y">>), last.before.request.query, last.req.query)
    /\ MergedSection(Prop(last.ctx, <<"h","e","a","d","e","r","s">>), last.before.request.headers,
                     last.req.headers)
    /\ MergedSection(Prop(last.ctx, <<"p","a","y","l","o","a","d">>), last.before.request.payload,
                     last.req.body)
    /\ MergedSection(Prop(last.ctx, <<"r","o","u","t","e">>), Undefined, last.req.params)
    /\ last.before.request.route = Str(<<"/","m">>) /\ BodyB2 =>
         Returned /\ last.out.content = Str(<<"A","=","1"," ","B","=","2">>)

\* A live payload value replaced the default of its key while a default
\* header the request did not send was kept; and the example was served.
C5_Witness ==
  /\ Returned
  /\ Prop(last.before.request.payload, <<"a">>) = Num(1)
  /\ Prop(Prop(last.ctx, <<"p","a","y","l","o","a","d">>), <<"a">>) = Num(5)
  /\ Prop(Prop(last.ctx, <<"q","u","e","r","y">>), <<"q">>) = Str(<<"l">>)
  /\ Prop(last.before.request.query, <<"q">>) = Str(<<"d">>)

\* C6: with repeat and cast both in the metadata of an array of strings,
\* the returned array is the data repeated, and what is cast is decided on
\* the repeated array: under "*" every element is cast, under an index the
\* element at that index of the repeated array alone.  With string numerals
\* and {"*": "number"} every element is a Number.
C6_RepeatBeforeCast ==
  Returned /\ IsNull(last.out.flow) /\ IsObj(last.before.response.metadata)
           /\ HasKey(last.before.response.metadata, <<"r","e","p","e","a","t">>)
           /\ HasKey(last.before.response.metadata, <<"c","a","s","t">>)
           /\ IsArr(last.before.response.data)
           /\ (\A i \in 1..Len(last.before.response.data.v) :
                 IsStr(last.before.response.data.v[i])) =>
    LET data == last.before.response.data.v
        cast == Prop(last.before.response.metadata, <<"c","a","s","t">>)
        content == last.out.content
        everywhere == HasKey(cast, WILDCARD)
        type(j) == IF everywhere THEN Prop(cast, WILDCARD) ELSE Prop(cast, NatToText(j - 1))
        base(j) == data[((j - 1) % Len(data)) + 1]
    IN /\ IsArr(content)
       /\ \E n \in 1..Len(content.v) : Len(content.v) = n * Len(data)
       /\ \A j \in 1..Len(content.v) :
            IF everywhere \/ HasKey(cast, NatToText(j - 1))
            THEN content.v[j] = CastContent(ToText(type(j)), base(j))
            ELSE content.v[j] = base(j)
       /\ everywhere /\ (\A i \in 1..Len(data) : AllDigits(data[i].v)) =>
            \A j \in 1..Len(content.v) : IsNum(content.v[j])

\* An array was repeated to more than its own length and cast: under the
\* wildcard, and under an index.
C6_Witness ==
  /\ Returned
  /\ IsObj(last.before.response.metadata)
  /\ HasKey(last.before.response.metadata, <<"r","e","p","e","a","t">>)
  /\ HasKey(Prop(last.before.response.metadata, <<"c","a","s","t">>), <<"0">>)
  /\ Len(last.out.content.v) = 2 * Len(last.before.response.data.v)
  /\ IsNum(last.out.content.v[1])
  /\ IsStr(last.out.content.v[3])

\* C7: after any calls of generate every registered builder (its request,
\* its default response and its except cases with their responses and
\* header maps) is equal to what the constructor made of its file.
C7_NeverMutated ==
  \A i \in 1..Len(builders) : builders[i].cb = Constructed(i)

\* C8: what a call of generate returns is what a builder fresh from the
\* constructor returns for the same request, clock reading, filler and
\* draw, whatever calls the builder served before.
C8_HistoryIndependent ==
  Called => last.out = Generate(Constructed(last.builder), last.req, last.now,
                                last.fill, last.d).out

\* A call fired a case on a builder that had fired a case before.
C8_Witness ==
  /\ Returned
  /\ ~IsNull(last.out.flow)
  /\ last.before # Constructed(last.builder)

\* The loop of serve has taken file k from the scan: it registered it, or
\* it is the file the loop ended the process on.
Taken(k) == k <= scanned \/ (k = scanned + 1 /\ pc = "exited" /\ exitCode = 1)

\* The file declares an except object; the constructor accepts the file.
DeclaresExcept(text) == Member(text, <<"e","x","c","e","p","t">>).t = "literal"
PassesValidation(text) == ~IsThrown(ContentBuilder(JsonParse(text)))

\* The process has ended on the security warning, without having listened.
SecurityExit ==
  /\ pc = "exited"
  /\ reported # <<>>
  /\ reported[Len(reported)] = "security"
  /\ "running" \notin Range(reported)

\* C9, as stated: without --allow-js, when a file taken from the scan
\* declares an except object the security warning is reported and the
\* process ends before it listens, and no predicate is ever evaluated.
C9_WarningForEveryExcept ==
  allowJs # TRUE =>
    /\ \A k \in 1..Len(dir) : Taken(k) /\ DeclaresExcept(dir[k]) => SecurityExit
    /\ Called => last.evaluated = <<>>

\* C9: without --allow-js, when a file taken from the scan passes the
\* validation of the constructor and declares an except object the security
\* warning is reported and the process ends before it listens; and no
\* predicate is ever evaluated.
C9_PermissionRequired ==
  allowJs # TRUE =>
    /\ \A k \in 1..Len(dir) :
         Taken(k) /\ DeclaresExcept(dir[k]) /\ PassesValidation(dir[k]) => SecurityExit
    /\ Called => last.evaluated = <<>>

\* Without --allow-js the loop registered a file and ended the process with
\* the security warning on the next one, which declares an except object.
C9_Witness ==
  /\ allowJs # TRUE
  /\ scanned = 1
  /\ Len(dir) > scanned
  /\ DeclaresExcept(dir[scanned + 1])
  /\ SecurityExit

\* C10: when the scan is over, every file of the directory that passes
\* validation is registered and the server listens, whatever other files
\* failed validation (in runs where no file needs the permission it was not
\* given).
C10_OtherSpecsServed ==
  /\ pc # "scanning"
  /\ allowJs = TRUE \/ \A k \in 1..Len(dir) : ~DeclaresExcept(dir[k])
  => \A k \in 1..Len(dir) :
       PassesValidation(dir[k]) =>
         pc = "listening" /\ \E i \in 1..Len(builders) : builders[i].file = k

\* -------------------------------------------------- properties of lib.js

\* Calls i, i + 1 and i + 2 of the context manager are a get, a set and a
\* get of its field.
GetSetGet(i) ==
  /\ last.calls[i].op = "get"
  /\ last.calls[i + 1].op = "set"
  /\ last.calls[i + 2].op = "get"

\* The field path names a property that is there, with a value other than
\* null, at every step and in every element a wildcard goes through.
RECURSIVE Exists(_, _)
Exists(source, fieldpath) ==
  IF fieldpath = <<>> THEN TRUE
  ELSE IF Head(fieldpath) = WILDCARD /\ IsArr(source)
  THEN \A i \in 1..Len(source.v) : Exists(source.v[i], Tail(fieldpath))
  ELSE /\ IsObj(source) \/ IsArr(source)
       /\ IF IsObj(source) THEN HasKey(source, Head(fieldpath)) ELSE IsIndexKey(Head(fieldpath))
       /\ HasProp(source, Head(fieldpath))
       /\ ~IsNull(Prop(source, Head(fieldpath)))
       /\ ~IsUndefined(Prop(source, Head(fieldpath)))
       /\ Exists(Prop(source, Head(fieldpath)), Tail(fieldpath))

\* The values an existing field path addresses, in order.
RECURSIVE Addressed(_, _)
Addressed(source, fieldpath) ==
  IF fieldpath = <<>> THEN <<source>>
  ELSE IF Head(fieldpath) = WILDCARD /\ IsArr(source)
  THEN IF source.v = <<>> THEN <<>>
       ELSE Addressed(Head(source.v), Tail(fieldpath))
            \o Addressed(Arr(Tail(source.v)), fieldpath)
  ELSE Addressed(Prop(source, Head(fieldpath)), Tail(fieldpath))

AllTruthy(values) == \A i \in 1..Len(values) : Truthy(values[i])

\* f(get(value, path)): the transform on what get returned, on each
\* collected result when the path has a wildcard segment.
Transformed(content, got, fieldpath) ==
  IF WILDCARD \in Range(fieldpath) /\ IsArr(got)
  THEN Arr([i \in 1..Len(got.v) |-> Call(content, got.v[i])])
  ELSE Call(content, got)

\* C11, as stated: for every path that exists in the source, wildcard paths
\* and paths whose current or new value is 0, false or "" included, the get
\* after a set returns the transform of what the get before it returned.
C11_RoundTripEveryValue ==
  last.t = "context" =>
    \A i \in 1..(Len(last.calls) - 2) :
      GetSetGet(i) /\ Exists(last.calls[i].ctx, Split(last.field, <<".">>)) =>
        last.calls[i + 2].result
          = Transformed(last.content, last.calls[i].result, Split(last.field, <<".">>))

\* C11: for every path that exists in the source, wildcard paths included,
\* whose current values and new values are all truthy, the get after a set
\* returns the transform of what the get before it returned.
C11_RoundTrip ==
  last.t = "context" =>
    \A i \in 1..(Len(last.calls) - 2) :
      /\ GetSetGet(i)
      /\ Exists(last.calls[i].ctx, Split(last.field, <<".">>))
      /\ AllTruthy(Addressed(last.calls[i].ctx, Split(last.field, <<".">>)))
      /\ AllTruthy(Addressed(last.calls[i + 1].result, Split(last.field, <<".">>)))
      => last.calls[i + 2].result
           = Transformed(last.content, last.calls[i].result, Split(last.field, <<".">>))

\* A round trip through a wildcard path, all values truthy, where the
\* transform changed what get returns.
C11_Witness ==
  /\ last.t = "context"
  /\ Len(last.calls) = 3
  /\ GetSetGet(1)
  /\ WILDCARD \in Range(Split(last.field, <<".">>))
  /\ Len(Split(last.field, <<".">>)) = 3
  /\ Exists(last.calls[1].ctx, Split(last.field, <<".">>))
  /\ AllTruthy(Addressed(last.calls[1].ctx, Split(last.field, <<".">>)))
  /\ AllTruthy(Addressed(last.calls[2].result, Split(last.field, <<".">>)))
  /\ last.calls[3].result # last.calls[1].result

\* The place of the wildcard segment in a field path, 0 without one; the
\* array the segments before it lead to in a source, and the segments
\* after it.
WildcardAt(fieldpath) ==
  IF WILDCARD \in Range(fieldpath)
  THEN CHOOSE w \in 1..Len(fieldpath) : fieldpath[w] = WILDCARD
  ELSE 0
Distributed(source, fieldpath) ==
  Addressed(source, SubSeq(fieldpath, 1, WildcardAt(fieldpath) - 1))[1]
Remaining(fieldpath) == SubSeq(fieldpath, WildcardAt(fieldpath) + 1, Len(fieldpath))

\* C12: a get with a wildcard returns, in the order of the array, the
\* lookups of the remaining path in the elements that are not absent
\* (null), and a set with a wildcard leaves an array of the same length
\* whose element at each place is the element written at the remaining path.
C12_WildcardDistributes ==
  last.t = "context" /\ WildcardAt(Split(last.field, <<".">>)) > 0 =>
    \A i \in 1..Len(last.calls) :
      LET rest == Remaining(Split(last.field, <<".">>))
          get(elements, result) ==
            LET each == [j \in 1..Len(elements) |-> Read(elements[j], rest)]
                kept == {j \in 1..Len(elements) : ~IsNull(each[j])}
                place(k) == CHOOSE j \in kept : Cardinality({h \in kept : h < j}) = k - 1
            IN /\ IsArr(result)
               /\ Len(result.v) = Cardinality(kept)
               /\ \A k \in 1..Len(result.v) : result.v[k] = each[place(k)]
          set(elements, written) ==
            /\ Len(written) = Len(elements)
            /\ \A j \in 1..Len(elements) :
                 written[j] = Write(elements[j], rest, last.content)
      IN IF last.calls[i].op = "get"
         THEN get(Distributed(last.calls[i].ctx, Split(last.field, <<".">>)).v,
                  last.calls[i].result)
         ELSE set(Distributed(last.calls[i].ctx, Split(last.field, <<".">>)).v,
                  Distributed(last.calls[i].result, Split(last.field, <<".">>)).v)

\* A wildcard get that left an element out and kept two, after a wildcard
\* set that made the field of the element that had none.
C12_Witness ==
  /\ last.t = "context"
  /\ last.field = <<"r","o","w","s",".","*",".","i","d">>
  /\ Len(last.calls) = 3
  /\ last.calls[1].op = "get"
  /\ Len(last.calls[1].result.v) = 2
  /\ last.calls[2].op = "set"
  /\ last.calls[3].op = "get"
  /\ Len(last.calls[3].result.v) = 3

\* The leaf transform raises on no scalar leaf of the template.
RECURSIVE Transformable(_, _)
Transformable(template, tf) ==
  IF IsArr(template)
  THEN \A i \in 1..Len(template.v) : Transformable(template.v[i], tf)
  ELSE IF IsObj(template)
  THEN \A i \in 1..Len(template.v) : Transformable(template.v[i][2], tf)
  ELSE ~IsThrown(TextCallback(tf, ToText(template)))

\* The output has the nesting, the array lengths and the key sets of the
\* template, and at each scalar leaf the transform of its string form.
RECURSIVE SameShape(_, _, _)
SameShape(template, out, tf) ==
  IF IsArr(template)
  THEN /\ IsArr(out)
       /\ Len(out.v) = Len(template.v)
       /\ \A i \in 1..Len(template.v) : SameShape(template.v[i], out.v[i], tf)
  ELSE IF IsObj(template)
  THEN /\ IsObj(out)
       /\ KeySet(out) = KeySet(template)
       /\ \A k \in KeySet(template) : SameShape(Prop(template, k), Prop(out, k), tf)
  ELSE out = TextCallback(tf, ToText(template))

\* C13: for every template of nested arrays and maps with null, boolean,
\* number or string leaves that the leaf transform accepts, the output of
\* generateContent has the shape of the template, each scalar leaf replaced
\* by the transform of its string form.
C13_ShapePreserved ==
  last.t = "generated" /\ Transformable(last.data, last.tf) =>
    SameShape(last.data, last.out, last.tf)

\* The text from position i on with each placeholder that looks up to a
\* value other than null replaced by the string form of the value, and
\* everything else as it is.
RECURSIVE Substituted(_, _, _, _)
Substituted(text, i, ctx, lower) ==
  IF i > Len(text) THEN <<>>
  ELSE LET e == NameEnd(text, i + 1)
           resolved(variable, value) ==
             IF IsNull(value) THEN <<"{">> \o variable \o <<"}">> ELSE ToText(value)
           lookup(variable) ==
             resolved(variable, CmGet(ctx, IF lower THEN ToLowerCase(variable) ELSE variable))
       IN IF text[i] = "{" /\ e >= i + 1 /\ e + 1 <= Len(text) /\ text[e + 1] = "}"
          THEN lookup(SubSeq(text, i + 1, e)) \o Substituted(text, e + 2, ctx, lower)
          ELSE <<text[i]>> \o Substituted(text, i + 1, ctx, lower)

\* C14: for every text and context, interpret returns the text with each
\* occurrence of a placeholder that resolves replaced by the string form of
\* its value, and with every other placeholder and every malformed one left
\* as it is.
C14_EveryOccurrenceReplaced ==
  last.t = "interpreted" =>
    last.out = Str(Substituted(last.text, 1, last.ctx, last.lower))

\* C15: repeatContent with a count formula "n" returns the list n whole
\* times in order: n times the length of the list, element j the element
\* j mod length of the list, and nothing for n = 0.
C15_WholeCopies ==
  last.t = "repeated" /\ AllDigits(last.formula) =>
    LET n == TextToNat(last.formula)
        length == Len(last.list.v)
    IN /\ IsArr(last.out)
       /\ Len(last.out.v) = n * length
       /\ \A j \in 0..(Len(last.out.v) - 1) : last.out.v[j + 1] = last.list.v[(j % length) + 1]
       /\ n = 0 => last.out.v = <<>>

\* Three elements of two kinds repeated three times.
C15_Witness ==
  /\ last.t = "repeated"
  /\ last.formula = <<"3">>
  /\ Len(last.list.v) = 3
  /\ last.list.v[1] # last.list.v[2]
  /\ Len(last.out.v) = 9

\* The bounds a range formula states for a list of the given length, an
\* omitted bound being the length; whether the formula is a range, and
\* whether it writes a bound of 0.
IsRange(formula) == IndexOf(formula, <<".",".">>) # 0
Stated(formula, length) ==
  LET bound(part) == IF part = <<>> THEN length ELSE TextToNat(part)
      bounds(parts) == [min |-> bound(parts[1]), max |-> bound(parts[2])]
  IN bounds(Split(formula, <<".",".">>))
StatesZero(formula) ==
  \E i \in 1..2 : AllDigits(Split(formula, <<".",".">>)[i]) /\ TextToNat(Split(formula, <<".",".">>)[i]) = 0

\* C16, as stated: for every list, repeat with a range formula min..max
\* yields a list whose length is between min and max inclusive.
C16_LengthInRange ==
  last.t = "repeated" /\ IsRange(last.formula) =>
    Len(last.out.v) \in Stated(last.formula, Len(last.list.v)).min
                          ..Stated(last.formula, Len(last.list.v)).max

\* C16: for every list, repeat with a range formula min..max, 1 <= min <=
\* max, yields a list whose length is the length of the list times a count
\* between min and max inclusive.
C16_CountInRange ==
  /\ last.t = "repeated"
  /\ IsRange(last.formula)
  /\ ~StatesZero(last.formula)
  /\ Stated(last.formula, Len(last.list.v)).min <= Stated(last.formula, Len(last.list.v)).max
  => \E count \in Stated(last.formula, Len(last.list.v)).min
                    ..Stated(last.formula, Len(last.list.v)).max :
       Len(last.out.v) = count * Len(last.list.v)

\* Five elements repeated "10..20": 75 elements, more than 20.
C16_Witness ==
  /\ last.t = "repeated"
  /\ last.formula = <<"1","0",".",".","2","0">>
  /\ Len(last.list.v) = 5
  /\ Len(last.out.v) > 20

\* The number of whole copies the output of repeatContent is made of.
CopiesMade == Len(last.out.v) \div Len(last.list.v)

\* C17: for a range formula min..max, min <= max, the number of whole
\* copies is in [min, max] for every draw, a bound being the length of the
\* list when it is omitted and only then: a written 0 is used as 0.
C17_CountWithinStatedBounds ==
  /\ last.t = "repeated"
  /\ IsRange(last.formula)
  /\ Len(last.list.v) > 0
  /\ Stated(last.formula, Len(last.list.v)).min <= Stated(last.formula, Len(last.list.v)).max
  => /\ Len(last.out.v) = CopiesMade * Len(last.list.v)
     /\ CopiesMade \in Stated(last.formula, Len(last.list.v)).min
                         ..Stated(last.formula, Len(last.list.v)).max

\* A text that is a numeral: digits, with or without a sign.
IsNumeral(text) ==
  \/ AllDigits(text)
  \/ Len(text) > 1 /\ Head(text) \in {"-", "+"} /\ AllDigits(Tail(text))
NumeralValue(text) ==
  IF AllDigits(text) THEN TextToNat(text)
  ELSE IF Head(text) = "-" THEN 0 - TextToNat(Tail(text)) ELSE TextToNat(Tail(text))
IsDiagnostic(out) == IsStr(out) /\ out.v # <<>> /\ Head(out.v) = "<"

\* C18: on a value that is there, castContent returns for number the
\* number a numeral string form stands for and a diagnostic string for any
\* other string form, for boolean true or false exactly for the string
\* forms "true" and "false" in any letter case and a diagnostic string
\* otherwise, and for string the string form.
C18_CastByStringForm ==
  last.t = "cast" /\ ~IsNull(last.value) /\ ~IsUndefined(last.value) =>
    LET number(text) ==
          IF IsNumeral(text) THEN last.out = Num(NumeralValue(text))
          ELSE IsDiagnostic(last.out)
        boolean(lowered) ==
          /\ lowered = <<"t","r","u","e">> => last.out = Bool(TRUE)
          /\ lowered = <<"f","a","l","s","e">> => last.out = Bool(FALSE)
          /\ lowered # <<"t","r","u","e">> /\ lowered # <<"f","a","l","s","e">> => IsDiagnostic(last.out)
    IN /\ last.type = <<"n","u","m","b","e","r">> => number(ToText(last.value))
       /\ last.type = <<"b","o","o","l","e","a","n">> => boolean(ToLowerCase(ToText(last.value)))
       /\ last.type = <<"s","t","r","i","n","g">> => last.out = Str(ToText(last.value))

\* ------------------------------------------- properties of the responses

\* The response the call generated its answer from: the response of the
\* case that fired, or the default response.
SelectedResponse ==
  LET chosen(except) ==
        IF except.outcome = "fired" THEN ResponseObject(except.response)
        ELSE last.before.response
  IN chosen(IF IsExceptHandler(last.before.except)
            THEN ValidateExceptions(last.before.except.cases, last.ctx)
            ELSE [outcome |-> "null"])
ValidationRaised ==
  /\ IsExceptHandler(last.before.except)
  /\ ValidateExceptions(last.before.except.cases, last.ctx).outcome = "throw"
CastOf(metadata) ==
  IF IsObj(metadata) /\ IsObj(Prop(metadata, <<"c","a","s","t">>))
  THEN Entries(Prop(metadata, <<"c","a","s","t">>)) ELSE <<>>

\* C19: in every call of generate on an accepted specification, whichever
\* response answers, each cast type is number, boolean or string, and the
\* call does not raise once the headers and the content are generated: a
\* cast target that is not there gets a diagnostic string.
C19_CastingNeverRaises ==
  Called /\ ~ValidationRaised =>
    LET casts(res) ==
          /\ \A i \in 1..Len(CastOf(res.metadata)) :
               ToText(CastOf(res.metadata)[i][2]) \in CAST_OPTIONS
          /\ /\ ~IsThrown(ProcessHeaders(res.headers, last.ctx, last.fill))
             /\ ~IsThrown(ProcessContent(res.data, last.ctx, last.fill))
             => ~IsThrown(last.out)
    IN casts(SelectedResponse)

\* No two of the names are equal when letter case is ignored.
CaseUnique(names) ==
  \A i, j \in 1..Len(names) : i # j => ToLowerCase(names[i]) # ToLowerCase(names[j])
HeaderNames(headers) ==
  IF headers.t \in {"obj", "literal"} THEN [i \in 1..Len(headers.v) |-> headers.v[i][1]]
  ELSE <<>>

\* C20: every registered specification was written with request and
\* response headers whose keys differ by more than letter case, the builder
\* holds such header maps, and the headers of every response generate
\* returns, the response of a fired case with its assertion header
\* included, have no two keys that are equal ignoring case.
C20_HeaderKeysUnique ==
  /\ \A i \in 1..Len(builders) :
       /\ CaseUnique(HeaderNames(Member(Member(dir[builders[i].file], <<"r","e","q","u","e","s","t">>),
                                        <<"h","e","a","d","e","r","s">>)))
       /\ CaseUnique(HeaderNames(Member(Member(dir[builders[i].file], <<"r","e","s","p","o","n","s","e">>),
                                        <<"h","e","a","d","e","r","s">>)))
       /\ CaseUnique(HeaderNames(builders[i].cb.request.headers))
       /\ CaseUnique(HeaderNames(builders[i].cb.response.headers))
  /\ Returned => CaseUnique(HeaderNames(last.out.headers))

\* ---------------------------------------------- properties of the handlers

\* The response object was accepted: the constructor returned a handler.
Accepted == last.t = "ResponseHandler" /\ ~IsThrown(last.out)
Rejected == last.t = "ResponseHandler" /\ IsThrown(last.out)

\* The code is an integer from 100 to 599, written as a number or as the
\* numeral of one.
IsStatusCode(code) ==
  \/ IsNum(code) /\ code.v \in 100..599
  \/ IsStr(code) /\ AllDigits(code.v) /\ TextToNat(code.v) \in 100..599

\* C21: a response object is accepted by ResponseHandler only with a
\* status code that is an integer from 100 to 599, which the handler then
\* holds; any other code is rejected.
C21_StatusCodeInRange ==
  last.t = "ResponseHandler" =>
    /\ Accepted => IsStatusCode(last.out.code)
    /\ ~IsStatusCode(Prop(last.r, <<"c","o","d","e">>)) => Rejected

\* What the request object must be: a route that is a text with more than
\* blanks, a method that is a verb in some letter case, a payload that is no
\* array, query values that are texts or lists of texts.
RouteGiven(route) == IsStr(route) /\ Trim(route.v) # <<>>
VerbGiven(method) == IsStr(method) /\ ToLowerCase(method.v) \in HTTP_VERBS
TextsOnly(query) ==
  IsObj(query) =>
    \A i \in 1..Len(query.v) :
      \/ IsStr(query.v[i][2])
      \/ /\ IsArr(query.v[i][2])
         /\ \A j \in 1..Len(query.v[i][2].v) : IsStr(query.v[i][2].v[j])

\* C22: RequestHandler is made only of a request object with such a route,
\* method, payload and query, every other one raises; the handler holds the
\* route and the payload as they were given and the verb in small letters.
C22_RequestAccepted ==
  last.t = "RequestHandler" =>
    LET wellFormed(method, route, query, payload) ==
          /\ RouteGiven(route)
          /\ VerbGiven(method)
          /\ ~IsArr(payload)
          /\ TextsOnly(query)
        kept(method, route, payload) ==
          /\ last.out.route = route
          /\ ~IsUndefined(payload) => last.out.payload = payload
          /\ last.out.method = Str(ToLowerCase(method.v))
          /\ last.out.method.v \in HTTP_VERBS
    IN /\ ~wellFormed(Prop(last.r, <<"m","e","t","h","o","d">>), Prop(last.r, <<"r","o","u","t","e">>),
                      Prop(last.r, <<"q","u","e","r","y">>), Prop(last.r, <<"p","a","y","l","o","a","d">>))
          => IsThrown(last.out)
       /\ ~IsThrown(last.out)
          => kept(Prop(last.r, <<"m","e","t","h","o","d">>), Prop(last.r, <<"r","o","u","t","e">>),
                  Prop(last.r, <<"p","a","y","l","o","a","d">>))

\* A handler made of a method in capital letters, a route with blanks
\* around it, and a payload object.
C22_Witness ==
  /\ last.t = "RequestHandler"
  /\ ~IsThrown(last.out)
  /\ Prop(last.r, <<"m","e","t","h","o","d">>) = Str(<<"G","E","T">>)
  /\ last.out.method = Str(<<"g","e","t">>)
  /\ last.out.route = Str(<<" ","/","m"," ">>)
  /\ last.out.payload = Declared(<<Field(<<"t","i","t","l","e">>, Str(<<"T","h","e">>))>>)
  /\ HasKey(last.out.query, <<"p","a","r","a","m","2">>)

\* The repeat formula of the metadata of a response object, and whether it
\* states counts that are numbers not below zero: one count, or two bounds
\* around "..", a bound left out standing for the length of the data.
RepeatOf(r) == Prop(Prop(r, <<"$","d","a","t","a">>), <<"r","e","p","e","a","t">>)
IsCount(part) == part # <<>> /\ AllDigits(part)
CountsStated(formula) ==
  IF IndexOf(formula, <<".",".">>) = 0 THEN IsCount(formula)
  ELSE \A i \in 1..2 :
         Split(formula, <<".",".">>)[i] = <<>> \/ IsCount(Split(formula, <<".",".">>)[i])

\* C23: the constructor of ResponseHandler raises when repeat is given and
\* the data of the response is no array, and when the repeat formula states
\* a count or a bound that is negative or no number.
C23_RepeatValidated ==
  (last.t = "ResponseHandler" /\ IsStr(RepeatOf(last.r))) =>
    ((~IsArr(Prop(last.r, <<"d","a","t","a">>)) \/ ~CountsStated(RepeatOf(last.r).v))
       => Rejected)

\* The field path leads to a value in the source: a property that is there,
\* neither null nor undefined, at every step, in at least one element where
\* a wildcard goes through the elements of a list.
RECURSIVE Resolves(_, _)
Resolves(source, fieldpath) ==
  IF fieldpath = <<>> THEN TRUE
  ELSE IF Head(fieldpath) = WILDCARD /\ IsArr(source)
  THEN \E i \in 1..Len(source.v) : Resolves(source.v[i], Tail(fieldpath))
  ELSE /\ IsObj(source) \/ IsArr(source)
       /\ IF IsObj(source) THEN HasKey(source, Head(fieldpath)) ELSE IsIndexKey(Head(fieldpath))
       /\ HasProp(source, Head(fieldpath))
       /\ ~IsNull(Prop(source, Head(fieldpath)))
       /\ ~IsUndefined(Prop(source, Head(fieldpath)))
       /\ Resolves(Prop(source, Head(fieldpath)), Tail(fieldpath))

\* C24: the constructor of ResponseHandler raises for cast metadata on data
\* that is no container and for a cast map with a path, plain or wildcard,
\* that leads to no value in the data: every cast path of an accepted
\* response leads to a value of its data.
C24_CastPathsResolve ==
  (last.t = "ResponseHandler" /\ CastOf(Prop(last.r, <<"$","d","a","t","a">>)) # <<>>) =>
    LET resolved(data, cast) ==
          /\ IsObj(data) \/ IsArr(data)
          /\ \A i \in 1..Len(cast) : Resolves(data, Split(cast[i][1], <<".">>))
    IN ~resolved(Prop(last.r, <<"d","a","t","a">>), CastOf(Prop(last.r, <<"$","d","a","t","a">>))) => Rejected

\* A segment of the field path before the last names a property the value
\* does not have; and: only the last segment does.
RECURSIVE MissesSegment(_, _)
MissesSegment(source, fieldpath) ==
  /\ Len(fieldpath) > 1
  /\ IF Head(fieldpath) = WILDCARD /\ IsArr(source)
     THEN \E i \in 1..Len(source.v) : MissesSegment(source.v[i], Tail(fieldpath))
     ELSE /\ IsObj(source) \/ IsArr(source)
          /\ \/ ~HasProp(source, Head(fieldpath))
             \/ MissesSegment(Prop(source, Head(fieldpath)), Tail(fieldpath))
RECURSIVE MissesFinalKey(_, _)
MissesFinalKey(source, fieldpath) ==
  /\ fieldpath # <<>>
  /\ WILDCARD \notin Range(fieldpath)
  /\ IsObj(source) \/ IsArr(source)
  /\ IF Len(fieldpath) = 1 THEN ~HasProp(source, Head(fieldpath))
     ELSE /\ HasProp(source, Head(fieldpath))
          /\ MissesFinalKey(Prop(source, Head(fieldpath)), Tail(fieldpath))

\* C25: a set that returns has created a key only at the last segment of the
\* path, holding the transform of the absent value; where a segment before
\* the last is absent from the value, set raises and no call returns.
C25_KeyOnlyAtLastSegment ==
  last.t = "context" =>
    \A i \in 1..Len(last.calls) :
      last.calls[i].op = "set" =>
        LET created(before, after, fieldpath) ==
              /\ ~MissesSegment(before, fieldpath)
              /\ MissesFinalKey(before, fieldpath)
                   => Addressed(after, fieldpath) = <<Call(last.content, Undefined)>>
        IN created(last.calls[i].ctx, last.calls[i].result, Split(last.field, <<".">>))

\* The validations a call of generate evaluated, each as the place of its
\* case in the text of the file and its place in the case.
EvaluatedPlaces ==
  LET declared == DeclaredCases(dir[builders[last.builder].file])
      place(name) == CHOOSE a \in 1..Len(declared) : declared[a] = name
  IN [i \in 1..Len(last.evaluated) |->
        <<place(last.evaluated[i][1]), last.evaluated[i][2]>>]
EvaluatedValue(i) ==
  LET value(validate) == EvalValidation(ToText(validate[last.evaluated[i][2]]), last.ctx)
  IN value(Iterable(Prop(Prop(last.before.except.cases, last.evaluated[i][1]),
                         <<"v","a","l","i","d","a","t","e">>)))

\* C26: in one call of generate the predicates are evaluated in the order
\* they are declared in, case after case and within a case, none twice, and
\* none after a predicate whose value makes its case fire.
C26_ShortCircuit ==
  Called =>
    LET inOrder(places) ==
          \A i, j \in 1..Len(places) :
            i < j => \/ places[i][1] < places[j][1]
                     \/ places[i][1] = places[j][1] /\ places[i][2] < places[j][2]
    IN /\ inOrder(EvaluatedPlaces)
       /\ \A i \in 1..(Len(last.evaluated) - 1) : ~Fails(EvaluatedValue(i))

\* What set may change between the value before and the value after: the
\* places the field path addresses hold the transform of what they held, a
\* final key that was absent holds the transform of the absent value, and
\* every other key and element is as it was.
RECURSIVE OnlyAddressedChanged(_, _, _, _)
OnlyAddressedChanged(before, after, fieldpath, content) ==
  IF fieldpath = <<>> THEN after = Call(content, before)
  ELSE IF Head(fieldpath) = WILDCARD /\ IsArr(before)
  THEN /\ IsArr(after)
       /\ Len(after.v) = Len(before.v)
       /\ \A i \in 1..Len(before.v) :
            OnlyAddressedChanged(before.v[i], after.v[i], Tail(fieldpath), content)
  ELSE /\ after.t = before.t
       /\ \A i \in 1..Len(Entries(before)) :
            Entries(before)[i][1] # Head(fieldpath)
              => Prop(after, Entries(before)[i][1]) = Entries(before)[i][2]
       /\ \A i \in 1..Len(Entries(after)) :
            \/ Entries(after)[i][1] = Head(fieldpath)
            \/ HasProp(before, Entries(after)[i][1])
       /\ IF HasProp(before, Head(fieldpath))
          THEN OnlyAddressedChanged(Prop(before, Head(fieldpath)),
                                    Prop(after, Head(fieldpath)), Tail(fieldpath), content)
          ELSE /\ Len(fieldpath) = 1
               /\ Prop(after, Head(fieldpath)) = Call(content, Undefined)

\* C27: after a set that returns, every key and element the path does not
\* address has the value it had before, and the addressed place holds the
\* transform of the value it had, of the absent value for a final key that
\* is created.
C27_OnlyAddressedChanged ==
  last.t = "context" =>
    \A i \in 1..Len(last.calls) :
      last.calls[i].op = "set" =>
        OnlyAddressedChanged(last.calls[i].ctx, last.calls[i].result,
                             Split(last.field, <<".">>), last.content)

\* C28: a call of generate on a builder made without except cases returns a
\* response, whatever the request, the data of the response and the cast
\* paths the constructor accepted.
C28_GenerateNeverRaises ==
  (Called /\ ~IsExceptHandler(last.before.except)) => ~IsThrown(last.out)

\* C29: when generate repeats a list of objects and casts a field of every
\* element by a wildcard path, the field of each element of the output is
\* the cast, made once, of the generated value of the element it is a copy
\* of, a diagnostic string when that value cannot be cast.
C29_CastOncePerElement ==
  (Returned /\ IsNull(last.out.flow) /\ IsArr(last.before.response.data)
     /\ Truthy(Prop(last.before.response.metadata, <<"r","e","p","e","a","t">>))) =>
    LET castOnce(generated, out, field, type) ==
          \A j \in 1..Len(out.v) :
            Prop(out.v[j], field)
              = CastContent(type, Prop(generated.v[((j - 1) % Len(generated.v)) + 1], field))
        each(generated, cast) ==
          \A i \in 1..Len(cast) :
            (Len(Split(cast[i][1], <<".">>)) = 2 /\ Split(cast[i][1], <<".">>)[1] = WILDCARD)
              => castOnce(generated, last.out.content, Split(cast[i][1], <<".">>)[2],
                          ToText(cast[i][2]))
    IN each(ProcessContent(last.before.response.data, last.ctx, last.fill),
            CastOf(last.before.response.metadata))

\* C30: the text interpret inserts for a placeholder is not replaced by a
\* later substitution: where the text begins with a placeholder that
\* resolves, the result begins with the string form of its value, also when
\* the value reads as a placeholder that comes later in the text.  (Values
\* with a dollar sign, which replace expands, are the matter of C14.)
C30_InsertedTextKept ==
  (last.t = "interpreted" /\ ~IsThrown(last.out) /\ Capture(last.text) # <<>>) =>
    LET kept(inserted) ==
          /\ Len(last.out.v) >= Len(inserted)
          /\ SubSeq(last.out.v, 1, Len(inserted)) = inserted
        first(variable, value) ==
          (/\ StartsAt(last.text, 1, <<"{">> \o variable \o <<"}">>)
           /\ ~IsNull(value)
           /\ "$" \notin Range(ToText(value))) => kept(ToText(value))
    IN first(Head(Capture(last.text)),
             CmGet(last.ctx, IF last.lower THEN ToLowerCase(Head(Capture(last.text)))
                             ELSE Head(Capture(last.text))))
====
